---- MODULE Spec2Model ----
(***************************************************************************)
(* A model of vibedialer's resume/range engine (resume.py, dialer.py,      *)
(* validation.py), of its tone classifier and recording analysis           *)
(* (audio_analysis.py), of the VoIP backend's asynchronous analysis        *)
(* scheduler (backends/voip.py), of the runs of its two front ends         *)
(* (cli.py, ui/tui/app.py) and of PhoneDialer's session counters.          *)
(*                                                                         *)
(* Strings are sequences of character codes ("-" is 45, "+" is 43, the     *)
(* digits "0".."9" are 48..57), so that sorting, prefixes and formatting   *)
(* are computed on the characters as the Python code computes them.        *)
(***************************************************************************)
EXTENDS Integers, Sequences, FiniteSets, TLC

VARIABLES
    r_call,     \* resume engine: the call made (operation and arguments)
    r_ret,      \* resume engine: what that call returned or raised
    g_call,     \* range functions: the call made (function and arguments)
    g_ret,      \* range functions: what that call returned or raised
    t_peaks,    \* tone classifier: the peaks find_peaks accepted, by frequency
    t_ret,      \* tone classifier: the result built from them
    a_rec,      \* recording analysis: the recording behind the URL
    a_ret,      \* recording analysis: what analyze_recording returned or raised
    a_future,   \* recording analysis: the Future of analyze_recording_async
    voip,       \* VoIP backend: the fields of the VoIPBackend object
    futures,    \* VoIP backend: the Future of each submitted analysis, by call
    main,       \* VoIP backend: where the thread that drives the backend is
    dial_result,\* VoIP backend: the DialResult dial() returned last
    hist,       \* VoIP backend: what the claims need of the past
    m_call,     \* call analysis: the arguments of _analyze_call_result
    m_ret,      \* call analysis: the DialResult it returned, or what it raised
    run,        \* front end: one run of the dial command or of the dialing screen
    dialer,     \* PhoneDialer: its connection, its counters and its results
    wav         \* recording analysis: the samples of a recording, read and normalized

rvars == <<r_call, r_ret>>
gvars == <<g_call, g_ret>>
tvars == <<t_peaks, t_ret>>
avars == <<a_rec, a_ret, a_future>>
svars == <<voip, futures, main, dial_result, hist>>
mvars == <<m_call, m_ret>>
uvars == <<run>>
dvars == <<dialer>>
wvars == <<wav>>
vars == <<r_call, r_ret, g_call, g_ret, t_peaks, t_ret, a_rec, a_ret, a_future,
          voip, futures, main, dial_result, hist, m_call, m_ret, run, dialer,
          wav>>

\* what the operations of one part leave alone: the state of the other parts
notResume == <<gvars, tvars, avars, svars, mvars, uvars, dvars, wvars>>
notRange == <<rvars, tvars, avars, svars, mvars, uvars, dvars, wvars>>
notTone == <<rvars, gvars, avars, svars, mvars, uvars, dvars, wvars>>
notAnalyze == <<rvars, gvars, tvars, svars, mvars, uvars, dvars, wvars>>
notSched == <<rvars, gvars, tvars, avars, mvars, uvars, dvars, wvars>>
notMerge == <<rvars, gvars, tvars, avars, svars, uvars, dvars, wvars>>
notRun == <<rvars, gvars, tvars, avars, svars, mvars, dvars, wvars>>
notDialer == <<rvars, gvars, tvars, avars, svars, mvars, uvars, wvars>>
notNormalize == <<rvars, gvars, tvars, avars, svars, mvars, uvars, dvars>>

----------------------------------------------------------------------------
(* Characters and strings *)

DASH == 45
PLUS == 43
CH0 == 48
CH1 == 49

IsDigit(c) == c \in 48..57

\* str.isdigit(): false for the empty string
isdigit(s) == Len(s) > 0 /\ \A i \in 1..Len(s) : IsDigit(s[i])

Range(s) == {s[i] : i \in 1..Len(s)}

NoDuplicates(s) == Cardinality(Range(s)) = Len(s)

\* s[a:b] of Python on a 0-based half-open interval, clipped to the string
Slice(s, a, b) ==
    LET hi == IF b < Len(s) THEN b ELSE Len(s)
    IN  IF a >= hi THEN <<>> ELSE SubSeq(s, a + 1, hi)

RECURSIVE StrLess(_, _)
\* a < b in Python's string order (code points, a proper prefix is smaller)
StrLess(a, b) ==
    IF Len(b) = 0 THEN FALSE
    ELSE IF Len(a) = 0 THEN TRUE
    ELSE IF a[1] # b[1] THEN a[1] < b[1]
    ELSE StrLess(Tail(a), Tail(b))

\* str.replace("-", "")
RemoveDashes(s) == SelectSeq(s, LAMBDA c : c # DASH)

\* if s.endswith("-"): s = s[:-1]
StripTrailingDash(s) ==
    IF Len(s) > 0 /\ s[Len(s)] = DASH THEN SubSeq(s, 1, Len(s) - 1) ELSE s

RECURSIVE Pow10(_)
Pow10(n) == IF n = 0 THEN 1 ELSE 10 * Pow10(n - 1)

RECURSIVE zfill(_, _)
\* str(i).zfill(n) for 0 <= i < 10^n
zfill(i, n) == IF n = 0 THEN <<>> ELSE Append(zfill(i \div 10, n - 1), CH0 + (i % 10))

None == [some |-> FALSE, val |-> <<>>]
Some(v) == [some |-> TRUE, val |-> v]

----------------------------------------------------------------------------
(* validation.py: PhoneNumberValidator for CountryCode.USA *)

TARGET_LENGTH == 10

\* re.sub(r"[^\d+]", "", s), then one leading "+" dropped
normalize_number(s) ==
    LET n == SelectSeq(s, LAMBDA c : IsDigit(c) \/ c = PLUS)
    IN  IF Len(n) > 0 /\ n[1] = PLUS THEN Tail(n) ELSE n

Is2to9(c) == c \in 50..57

validate_usa_nanp(digits) ==
    IF Len(digits) # 10 THEN FALSE
    ELSE IF ~Is2to9(digits[1]) THEN FALSE
    ELSE IF digits[2] = CH1 /\ digits[3] = CH1 THEN FALSE
    ELSE IF ~Is2to9(digits[4]) THEN FALSE
    ELSE isdigit(digits)

\* the digits validate() and format_number() work on: an 11-digit number
\* starting with the country code "1" loses it
NationalDigits(phone_number) ==
    LET normalized == normalize_number(phone_number)
        has_country_code == Len(normalized) = 11 /\ normalized[1] = CH1
    IN  IF has_country_code THEN Tail(normalized) ELSE normalized

validate(phone_number) ==
    LET digits == NationalDigits(phone_number)
    IN  IF Len(digits) < 10 THEN FALSE
        ELSE IF Len(digits) > 10 THEN FALSE
        ELSE validate_usa_nanp(digits)

\* format_number(phone_number, include_country_code=False): XXX-XXX-XXXX or None
format_number(phone_number) ==
    IF ~validate(phone_number) THEN None
    ELSE LET digits == NationalDigits(phone_number)
         IN  Some(Slice(digits, 0, 3) \o <<DASH>> \o Slice(digits, 3, 6)
                  \o <<DASH>> \o Slice(digits, 6, 10))

validate_pattern(pattern) ==
    LET normalized == normalize_number(pattern)
        has_country_code == Len(normalized) >= 11 /\ normalized[1] = CH1
        digits == IF has_country_code THEN Tail(normalized) ELSE normalized
    IN  IF Len(digits) < 3 THEN FALSE
        ELSE IF ~Is2to9(digits[1]) THEN FALSE
        ELSE IF digits[2] = CH1 /\ digits[3] = CH1 THEN FALSE
        ELSE IF Len(digits) >= 6 /\ ~Is2to9(digits[4]) THEN FALSE
        ELSE isdigit(digits)

----------------------------------------------------------------------------
(* dialer.py: PhoneDialer.generate_numbers(partial_number, randomize=False) *)

Raise(e) == [raised |-> e, value |-> <<>>]
Return(v) == [raised |-> "none", value |-> v]

RECURSIVE str(_)
\* str(i) for i >= 0
str(i) == IF i < 10 THEN <<CH0 + i>> ELSE Append(str(i \div 10), CH0 + (i % 10))

\* a loop whose suffix is str(i), without the zero padding
generate_numbers_unpadded(partial_number) ==
    IF ~validate_pattern(partial_number) THEN Raise("ValueError")
    ELSE
        LET clean_number == normalize_number(partial_number)
            digits_needed == TARGET_LENGTH - Len(clean_number)
            candidates == [i \in 1..Pow10(digits_needed) |-> clean_number \o str(i - 1)]
            valid == SelectSeq(candidates, validate)
        IN  IF digits_needed <= 0 THEN Return(<<format_number(clean_number).val>>)
            ELSE Return([i \in 1..Len(valid) |-> format_number(valid[i]).val])

generate_numbers(partial_number) ==
    IF ~validate_pattern(partial_number) THEN Raise("ValueError")
    ELSE
        LET clean_number == normalize_number(partial_number)
            current_length == Len(clean_number)
        IN  IF current_length >= TARGET_LENGTH
            THEN IF ~validate(clean_number) THEN Raise("ValueError")
                 ELSE Return(<<format_number(clean_number).val>>)
            ELSE
                LET digits_needed == TARGET_LENGTH - current_length
                    max_combinations == Pow10(digits_needed)
                    candidates == [i \in 1..max_combinations |->
                                      clean_number \o zfill(i - 1, digits_needed)]
                    valid == SelectSeq(candidates, validate)
                IN  Return([i \in 1..Len(valid) |-> format_number(valid[i]).val])

\* count_numbers(partial_number)
count_numbers(partial_number) ==
    IF ~validate_pattern(partial_number) THEN Raise("ValueError")
    ELSE
        LET clean_number == normalize_number(partial_number)
            current_length == Len(clean_number)
            digits_needed == TARGET_LENGTH - current_length
        IN  IF current_length >= TARGET_LENGTH THEN Return(1)
            ELSE IF current_length = 3 THEN Return(8 * Pow10(6))
            ELSE IF current_length = 4 THEN Return(Pow10(6))
            ELSE IF current_length = 5 THEN Return(Pow10(5))
            ELSE Return(Pow10(digits_needed))

----------------------------------------------------------------------------
(* resume.py *)

\* the largest number of digits a prefix of the pool leaves to fill
MaxDigitsNeeded == 2
\* the longest list the model shuffles in every possible order
MaxShuffle == 3

\* Path(filename).suffix.lower()
suffix_lower(suffix) ==
    CASE suffix = ".CSV" -> ".csv"
      [] suffix = ".DB" -> ".db"
      [] OTHER -> suffix

\* read_dialed_numbers_from_csv: rows without a phone_number column add nothing
read_dialed_numbers_from_csv(src) ==
    IF ~src.exists THEN Raise("FileNotFoundError")
    ELSE Return(IF src.has_column THEN src.numbers ELSE {})

\* read_dialed_numbers_from_sqlite: the SELECT on a database without the
\* dial_results table raises sqlite3.OperationalError
read_dialed_numbers_from_sqlite(src) ==
    IF ~src.exists THEN Raise("FileNotFoundError")
    ELSE IF ~src.has_column THEN Raise("OperationalError")
    ELSE Return(src.numbers)

read_dialed_numbers(src) ==
    LET suffix == suffix_lower(src.suffix)
    IN  IF suffix = ".csv" THEN read_dialed_numbers_from_csv(src)
        ELSE IF suffix = ".db" THEN read_dialed_numbers_from_sqlite(src)
        ELSE Raise("ValueError")

\* the smallest and the largest string of a non-empty set: sorted(numbers)[0], [-1]
MinStr(S) == CHOOSE x \in S : \A y \in S : x = y \/ StrLess(x, y)
MaxStr(S) == CHOOSE x \in S : \A y \in S : x = y \/ StrLess(y, x)

RECURSIVE CommonPrefix(_, _)
\* the zip loop of infer_pattern_from_numbers
CommonPrefix(a, b) ==
    IF Len(a) = 0 \/ Len(b) = 0 \/ a[1] # b[1] THEN <<>>
    ELSE <<a[1]>> \o CommonPrefix(Tail(a), Tail(b))

\* one round of the "for trim in [2, 1]" loop: the candidate it builds
TrimCandidate(common_prefix, trim) ==
    StripTrailingDash(IF Len(common_prefix) > trim
                      THEN SubSeq(common_prefix, 1, Len(common_prefix) - trim)
                      ELSE common_prefix)

infer_pattern_from_numbers(numbers) ==
    IF numbers = {} THEN None
    ELSE
        LET first == MinStr(numbers)
            last == MaxStr(numbers)
            common_prefix == StripTrailingDash(CommonPrefix(first, last))
            clean_prefix == RemoveDashes(common_prefix)
            cand2 == TrimCandidate(common_prefix, 2)
            cand1 == TrimCandidate(common_prefix, 1)
        IN  IF Len(clean_prefix) = 7 /\ Len(RemoveDashes(cand2)) >= 2 THEN Some(cand2)
            ELSE IF Len(clean_prefix) = 7 /\ Len(RemoveDashes(cand1)) >= 2 THEN Some(cand1)
            ELSE IF Len(clean_prefix) >= 2 THEN Some(common_prefix)
            ELSE None

\* a filter that keeps the dialed numbers instead of dropping them
remaining_filter_inverted(all_numbers, dialed) ==
    SelectSeq(all_numbers, LAMBDA num : num \in dialed)

\* calculate_remaining_numbers before the optional shuffle
remaining_unshuffled(all_numbers, dialed) ==
    SelectSeq(all_numbers, LAMBDA num : num \notin dialed)

\* random.shuffle(remaining): any order of the same elements. Lists longer
\* than MaxShuffle have too many orders to enumerate: calls that would
\* shuffle one are left out of the model (no outcome).
shuffle(s) ==
    IF Len(s) > MaxShuffle THEN {}
    ELSE {[i \in 1..Len(s) |-> s[p[i]]] : p \in Permutations(1..Len(s))}

\* the lists calculate_remaining_numbers(prefix, dialed, randomize) can return,
\* or the exception generate_numbers raises
calculate_remaining_numbers(prefix, dialed, randomize) ==
    LET gen == generate_numbers(prefix)
        remaining == remaining_unshuffled(gen.value, dialed)
    IN  IF gen.raised # "none" THEN {Raise(gen.raised)}
        ELSE IF randomize THEN {Return(r) : r \in shuffle(remaining)}
        ELSE {Return(remaining)}

\* total_count = len(remaining) + len(dialed)
total_count(remaining, dialed) == Len(remaining) + Cardinality(dialed)

ResumeRaise(e) ==
    [raised |-> e, message |-> "", prefix |-> <<>>, remaining |-> <<>>, total_count |-> 0,
     dialed_count |-> 0]

\* raise e(message)
ResumeError(e, message) == [ResumeRaise(e) EXCEPT !.message = message]

\* the prefix prepare_resume works with: the one given, else the inferred one
effective_prefix(dialed, prefix) ==
    IF prefix.some THEN prefix ELSE infer_pattern_from_numbers(dialed)

\* a prepare_resume that takes an empty results file, or numbers without a
\* common prefix, for a session with nothing left to dial
prepare_resume_swallowing(resume_file, prefix, randomize) ==
    LET rd == read_dialed_numbers(resume_file)
        eff == effective_prefix(rd.value, prefix)
    IN  IF rd.raised # "none" THEN {ResumeRaise(rd.raised)}
        ELSE IF rd.value = {} \/ ~eff.some
        THEN {[ResumeRaise("none") EXCEPT !.dialed_count = Cardinality(rd.value),
                                          !.total_count = Cardinality(rd.value)]}
        ELSE {IF rem.raised # "none" THEN ResumeRaise(rem.raised)
              ELSE [ResumeRaise("none") EXCEPT !.prefix = eff.val, !.remaining = rem.value,
                       !.total_count = total_count(rem.value, rd.value),
                       !.dialed_count = Cardinality(rd.value)]
              : rem \in calculate_remaining_numbers(eff.val, rd.value, randomize)}

\* the tuples prepare_resume(resume_file, prefix, randomize) can return, or
\* the exception it raises
prepare_resume(resume_file, prefix, randomize) ==
    LET rd == read_dialed_numbers(resume_file)
        dialed == rd.value
        eff == effective_prefix(dialed, prefix)
    IN  IF rd.raised # "none" THEN {ResumeRaise(rd.raised)}
        ELSE IF dialed = {} THEN {ResumeError("ValueError", "No dialed numbers found")}
        ELSE IF ~eff.some
        THEN {ResumeError("ValueError", "Could not infer pattern from dialed numbers")}
        ELSE {IF rem.raised # "none" THEN ResumeRaise(rem.raised)
              ELSE [raised |-> "none", prefix |-> eff.val, remaining |-> rem.value,
                    total_count |-> total_count(rem.value, dialed),
                    dialed_count |-> Cardinality(dialed)]
              : rem \in calculate_remaining_numbers(eff.val, dialed, randomize)}

----------------------------------------------------------------------------
(* audio_analysis.py: the tone classifier.  Frequencies are in Hz; a
   confidence c is held as the integer 10000 * c, which is exact for every
   confidence the classifier computes from a whole number of Hz. *)

FAX_CNG_FREQUENCY == 1100
FAX_CED_FREQUENCY == 2100
MODEM_V22_ANSWER == 2400
MODEM_V22_ORIGINATE == 1200
MODEM_RANGE_LOW == 1650
MODEM_RANGE_HIGH == 2400
FREQUENCY_TOLERANCE == 50
VOICE_LOW == 300
VOICE_HIGH == 3400
VOICE_STD == 300
TOP_PEAKS == 5

\* 10000 * c for the confidences of the code
CONF_ONE == 10000
CONFIDENCE_THRESHOLD == 7000
CONF_CED_FAX == 9000
CONF_CED_MODEM == 7500
CONF_VOICE_SPREAD == 7500
CONF_VOICE_PRIMARY == 6000

Abs(x) == IF x < 0 THEN -x ELSE x
Max(a, b) == IF a >= b THEN a ELSE b

\* 10000 * (1.0 - abs(primary_freq - center) / FREQUENCY_TOLERANCE)
BandConfidence(primary_freq, center) ==
    CONF_ONE - (CONF_ONE \div FREQUENCY_TOLERANCE) * Abs(primary_freq - center)

\* 10000 * (1.0 - (distance_from_center / max_distance) * 0.3), with
\* range_center = 2025 and max_distance = 375: 3000 / 375 = 8 per Hz
RangeConfidence(primary_freq) ==
    LET range_center == (MODEM_RANGE_LOW + MODEM_RANGE_HIGH) \div 2
        max_distance == (MODEM_RANGE_HIGH - MODEM_RANGE_LOW) \div 2
    IN  CONF_ONE - ((((3 * CONF_ONE) \div 10) * Abs(primary_freq - range_center)) \div max_distance)

RECURSIVE SumSeq(_)
SumSeq(s) == IF Len(s) = 0 THEN 0 ELSE s[1] + SumSeq(Tail(s))

\* a deviation test that divides by n - 1, as for a sample
StdExceeds_sample(xs, limit) ==
    LET n == Len(xs)
        sum == SumSeq(xs)
        sumsq == SumSeq([i \in 1..n |-> xs[i] * xs[i]])
    IN  n * sumsq - sum * sum > limit * limit * n * (n - 1)

\* np.std(xs) > limit for a non-empty xs: the population deviation, compared
\* without the square root: n * sum(x^2) - sum(x)^2 > (limit * n)^2
StdExceeds(xs, limit) ==
    LET n == Len(xs)
        sum == SumSeq(xs)
        sumsq == SumSeq([i \in 1..n |-> xs[i] * xs[i]])
    IN  n * sumsq - sum * sum > (limit * n) * (limit * n)

Tone(tone_type, confidence) == [tone_type |-> tone_type, confidence |-> confidence]

\* an accepted-companion test that also takes the edge of the window
has_cng_inclusive(all_freqs) ==
    \E i \in 1..Len(all_freqs) : Abs(all_freqs[i] - FAX_CNG_FREQUENCY) <= FREQUENCY_TOLERANCE

\* any(abs(f - FAX_CNG_FREQUENCY) < FREQUENCY_TOLERANCE for f in all_freqs)
has_cng(all_freqs) ==
    \E i \in 1..Len(all_freqs) : Abs(all_freqs[i] - FAX_CNG_FREQUENCY) < FREQUENCY_TOLERANCE

\* a CNG test that looks at the CED band
is_cng_primary_wrong_center(primary_freq) ==
    Abs(primary_freq - FAX_CED_FREQUENCY) < FREQUENCY_TOLERANCE

\* abs(primary_freq - FAX_CNG_FREQUENCY) < FREQUENCY_TOLERANCE
is_cng_primary(primary_freq) ==
    Abs(primary_freq - FAX_CNG_FREQUENCY) < FREQUENCY_TOLERANCE

\* a classifier that tries the general range before the V.22 answer band
classify_tone_range_before_answer(primary_freq, all_freqs, all_mags) ==
    LET voice_range_freqs ==
            SelectSeq(all_freqs, LAMBDA f : VOICE_LOW <= f /\ f <= VOICE_HIGH)
    IN  IF is_cng_primary(primary_freq)
        THEN Tone("fax", Max(BandConfidence(primary_freq, FAX_CNG_FREQUENCY),
                             CONFIDENCE_THRESHOLD))
        ELSE IF Abs(primary_freq - FAX_CED_FREQUENCY) < FREQUENCY_TOLERANCE
        THEN IF has_cng(all_freqs) THEN Tone("fax", CONF_CED_FAX)
             ELSE Tone("modem", CONF_CED_MODEM)
        ELSE IF Abs(primary_freq - MODEM_V22_ORIGINATE) < FREQUENCY_TOLERANCE
        THEN Tone("modem", Max(BandConfidence(primary_freq, MODEM_V22_ORIGINATE),
                               CONFIDENCE_THRESHOLD))
        ELSE IF /\ MODEM_RANGE_LOW <= primary_freq /\ primary_freq <= MODEM_RANGE_HIGH
                /\ Abs(primary_freq - FAX_CED_FREQUENCY) > FREQUENCY_TOLERANCE
        THEN Tone("modem", Max(RangeConfidence(primary_freq), CONFIDENCE_THRESHOLD))
        ELSE IF Abs(primary_freq - MODEM_V22_ANSWER) < FREQUENCY_TOLERANCE
        THEN Tone("modem", Max(BandConfidence(primary_freq, MODEM_V22_ANSWER),
                               CONFIDENCE_THRESHOLD))
        ELSE IF /\ Len(voice_range_freqs) >= 3
                /\ StdExceeds(Slice(voice_range_freqs, 0, TOP_PEAKS), VOICE_STD)
        THEN Tone("voice", CONF_VOICE_SPREAD)
        ELSE IF VOICE_LOW <= primary_freq /\ primary_freq <= VOICE_HIGH
        THEN Tone("voice", CONF_VOICE_PRIMARY)
        ELSE Tone("unknown", 0)

\* classify_tone(primary_freq, all_freqs, all_mags): all_freqs holds every
\* accepted peak, strongest first; all_mags is not read by the code
classify_tone(primary_freq, all_freqs, all_mags) ==
    LET voice_range_freqs ==
            SelectSeq(all_freqs, LAMBDA f : VOICE_LOW <= f /\ f <= VOICE_HIGH)
    IN  IF is_cng_primary(primary_freq)
        THEN Tone("fax", Max(BandConfidence(primary_freq, FAX_CNG_FREQUENCY),
                             CONFIDENCE_THRESHOLD))
        ELSE IF Abs(primary_freq - FAX_CED_FREQUENCY) < FREQUENCY_TOLERANCE
        THEN IF has_cng(all_freqs) THEN Tone("fax", CONF_CED_FAX)
             ELSE Tone("modem", CONF_CED_MODEM)
        ELSE IF Abs(primary_freq - MODEM_V22_ORIGINATE) < FREQUENCY_TOLERANCE
        THEN Tone("modem", Max(BandConfidence(primary_freq, MODEM_V22_ORIGINATE),
                               CONFIDENCE_THRESHOLD))
        ELSE IF Abs(primary_freq - MODEM_V22_ANSWER) < FREQUENCY_TOLERANCE
        THEN Tone("modem", Max(BandConfidence(primary_freq, MODEM_V22_ANSWER),
                               CONFIDENCE_THRESHOLD))
        ELSE IF /\ MODEM_RANGE_LOW <= primary_freq /\ primary_freq <= MODEM_RANGE_HIGH
                /\ Abs(primary_freq - FAX_CED_FREQUENCY) > FREQUENCY_TOLERANCE
        THEN Tone("modem", Max(RangeConfidence(primary_freq), CONFIDENCE_THRESHOLD))
        ELSE IF /\ Len(voice_range_freqs) >= 3
                /\ StdExceeds(Slice(voice_range_freqs, 0, TOP_PEAKS), VOICE_STD)
        THEN Tone("voice", CONF_VOICE_SPREAD)
        ELSE IF VOICE_LOW <= primary_freq /\ primary_freq <= VOICE_HIGH
        THEN Tone("voice", CONF_VOICE_PRIMARY)
        ELSE Tone("unknown", 0)

\* the result dictionary of perform_fft_analysis / analyze_recording
FftResult(tone_type, peak_frequency, confidence, all_peaks, has_all_peaks, error) ==
    [tone_type |-> tone_type, peak_frequency |-> peak_frequency,
     confidence |-> confidence, all_peaks |-> all_peaks,
     has_all_peaks |-> has_all_peaks, error |-> error]

NoFreq == [some |-> FALSE, val |-> 0]
NoError == [some |-> FALSE, val |-> ""]

\* the peaks left in the order find_peaks gave them
sorted_by_frequency(peaks) == {peaks}

\* the orders np.argsort(peak_mags)[::-1] can give: non-increasing magnitude,
\* equal magnitudes in an order the sort does not promise
sorted_by_magnitude(peaks) ==
    {q \in {[i \in 1..Len(peaks) |-> peaks[p[i]]] : p \in Permutations(1..Len(peaks))} :
        \A i \in 1..(Len(q) - 1) : q[i].mag >= q[i + 1].mag}

\* perform_fft_analysis from the peaks find_peaks accepted (peaks, in
\* frequency order): the results it can return
analyze_peaks(peaks) ==
    IF Len(peaks) = 0
    THEN {FftResult("unknown", NoFreq, 0, <<>>, TRUE, NoError)}
    ELSE {LET peak_freqs == [i \in 1..Len(sorted) |-> sorted[i].freq]
              peak_mags == [i \in 1..Len(sorted) |-> sorted[i].mag]
              primary_freq == peak_freqs[1]
              tone == classify_tone(primary_freq, peak_freqs, peak_mags)
          IN  FftResult(tone.tone_type, Some(primary_freq), tone.confidence,
                        Slice(sorted, 0, TOP_PEAKS), TRUE, NoError)
          : sorted \in sorted_by_magnitude(peaks)}

----------------------------------------------------------------------------
(* Inputs of the tone classifier: the peaks find_peaks can accept, which lie
   at distinct frequencies more than MinSeparation apart, each with a
   magnitude above zero *)

MaxPeaks == 3
MaxMag == 2

\* find_peaks(distance = int(100 / bin width)) keeps peaks at least that many
\* bins apart, which is more than 50 Hz for every bin width it accepts
MinSeparation == 50

FreqGrid ==
    {200, 300, 700, 1050, 1051, 1075, 1090, 1100, 1149, 1150, 1200, 1249, 1250,
     1600, 1650, 1700, 2025, 2050, 2051, 2100, 2149, 2150, 2300, 2350, 2351,
     2400, 2449, 2450, 3000, 3400, 3500}

\* the frequencies the other peaks of a list are drawn from
CompanionGrid == {400, 1051, 1150, 2100, 3000, 3400}

Peak(freq, mag) == [freq |-> freq, mag |-> mag]

RECURSIVE ByFrequency(_)
\* the peaks of a set as find_peaks lists them: by rising frequency
ByFrequency(S) ==
    IF S = {} THEN <<>>
    ELSE LET lo == CHOOSE x \in S : \A y \in S : x.freq <= y.freq
         IN  <<lo>> \o ByFrequency(S \ {lo})

Separated(F) ==
    \A f \in F : \A g \in F : f < g => g - f > MinSeparation

\* sets of at most MaxPeaks frequencies, at most one of them off CompanionGrid
FrequencySets ==
    {F \in {C \cup X : C \in SUBSET CompanionGrid,
                       X \in {{}} \cup {{f} : f \in FreqGrid}} :
        Cardinality(F) <= MaxPeaks /\ Separated(F)}

PeakList(F, mags) == ByFrequency({Peak(f, mags[f]) : f \in F})

TonePending == FftResult("pending", NoFreq, 0, <<>>, FALSE, NoError)

ToneInit ==
    /\ \E F \in FrequencySets : \E mags \in [F -> 1..MaxMag] : t_peaks = PeakList(F, mags)
    /\ t_ret = TonePending

\* perform_fft_analysis, from the accepted peaks on
AnalyzePeaks ==
    /\ t_ret = TonePending
    /\ t_ret' \in analyze_peaks(t_peaks)
    /\ UNCHANGED <<t_peaks, notTone>>

ToneNext == AnalyzePeaks

ToneIdle ==
    /\ t_peaks = <<>>
    /\ t_ret = FftResult("idle", NoFreq, 0, <<>>, FALSE, NoError)

----------------------------------------------------------------------------
(* Inputs of perform_fft_analysis with more accepted peaks than it reports:
   up to MaxLong peaks at frequencies a hundred Hz or more apart, each strong
   or weak *)

MaxLong == 6

LongGrid == {400, 500, 600, 700, 1100, 2100, 3400, 3500}

LongMags == {1, 2}

LongFrequencySets ==
    {F \in SUBSET LongGrid : F # {} /\ Cardinality(F) <= MaxLong}

PeaksInit ==
    /\ \E F \in LongFrequencySets : \E mags \in [F -> LongMags] : t_peaks = PeakList(F, mags)
    /\ t_ret = TonePending

----------------------------------------------------------------------------
(* audio_analysis.py: from the recording to the result.  The Fourier
   transform itself is not computed: a recording is given by its sample rate,
   its number of samples and the magnitudes of its spectrum, which is zero
   except at a few bins.  Dividing the samples by their maximum scales the
   whole spectrum, which the relative height threshold does not see. *)

\* len(freqs): the bins of positive frequency among n_samples bins
positive_bins(n_samples) == IF n_samples = 0 THEN 0 ELSE (n_samples - 1) \div 2

\* freqs[i]: the frequency of the i-th positive bin
bin_frequency(rec, i) == (i * rec.sample_rate) \div rec.n_samples

\* magnitudes: np.abs(fft[positive_freqs_mask])
magnitudes(rec) ==
    [i \in 1..positive_bins(rec.n_samples) |->
        IF i \in DOMAIN rec.tones THEN rec.tones[i] ELSE 0]

MaxOf(x) == CHOOSE m \in Range(x) : \A v \in Range(x) : v <= m

\* scipy's local maxima: a sample, or the middle of a flat run of samples,
\* higher than both neighbours; the first and the last sample are never one
local_maxima(x) ==
    LET n == Len(x)
        rises == {l \in 2..(n - 1) : x[l - 1] < x[l]}
        falls == {r \in 2..(n - 1) : x[r + 1] < x[r]}
    IN  {(p[1] + p[2]) \div 2 :
            p \in {q \in rises \X falls :
                      q[1] <= q[2] /\ \A k \in q[1]..q[2] : x[k] = x[q[1]]}}

\* height = magnitudes.max() * 0.1: the peaks at least that high
clears_height(x, i) == 10 * x[i] >= MaxOf(x)

RECURSIVE select_by_peak_distance(_, _, _)
\* scipy's distance rule: the highest peak is kept and every peak closer than
\* distance to it goes, and so on down; peaks of one height in an order the
\* sort does not promise.  The sets of peaks that can remain.
select_by_peak_distance(peaks, x, distance) ==
    IF peaks = {} THEN {{}}
    ELSE UNION {{{top} \cup rest :
                    rest \in select_by_peak_distance(
                        {q \in peaks : Abs(q - top) >= distance}, x, distance)}
                : top \in {i \in peaks : \A j \in peaks : x[j] <= x[i]}}

\* int(100 * len(freqs) / (sample_rate / 2))
peak_distance(rec) == (200 * positive_bins(rec.n_samples)) \div rec.sample_rate

\* signal.find_peaks(magnitudes, height, distance): the index sets it can
\* return, or the error it raises
find_peaks(rec) ==
    LET x == magnitudes(rec)
        distance == peak_distance(rec)
    IN  IF distance < 1 THEN {Raise("ValueError")}
        ELSE {Return(kept) :
                 kept \in select_by_peak_distance(
                     {i \in local_maxima(x) : clears_height(x, i)}, x, distance)}

\* perform_fft_analysis(audio, sample_rate)
perform_fft_analysis(rec) ==
    IF positive_bins(rec.n_samples) = 0
    THEN {Raise("ValueError")}
    ELSE UNION {IF found.raised # "none" THEN {found}
                ELSE {Return(res) :
                         res \in analyze_peaks(ByFrequency(
                             {Peak(bin_frequency(rec, i), magnitudes(rec)[i])
                                 : i \in found.value}))}
                : found \in find_peaks(rec)}

RequestException == {"ConnectionError", "Timeout", "HTTPError"}

\* an error dictionary that leaves the error out
ErrorResultWithoutError(e) == FftResult("unknown", NoFreq, 0, <<>>, FALSE, NoError)

\* the dictionary both except clauses of analyze_recording build
ErrorResult(e) == FftResult("unknown", NoFreq, 0, <<>>, FALSE, Some(e))

\* the try block of analyze_recording
analyze_recording_body(rec) ==
    IF rec.download # "ok" THEN {Raise(rec.download)}
    ELSE IF rec.decode # "ok" THEN {Raise(rec.decode)}
    ELSE IF rec.n_samples = 0 THEN {Raise("ValueError")}
    ELSE perform_fft_analysis(rec)

\* analyze_recording with only the except clause for requests' errors
analyze_recording_requests_only(rec) ==
    {IF out.raised \in RequestException THEN Return(ErrorResult(out.raised)) ELSE out
        : out \in analyze_recording_body(rec)}

\* analyze_recording(recording_url, timeout)
analyze_recording(rec) ==
    {IF out.raised \in RequestException THEN Return(ErrorResult(out.raised))
     ELSE IF out.raised # "none" THEN Return(ErrorResult(out.raised))
     ELSE out
        : out \in analyze_recording_body(rec)}

\* concurrent.futures.Future: its state, and its result or its exception
Future(state, result, exception) ==
    [state |-> state, result |-> result, exception |-> exception]

NoFuture == Future("none", TonePending, "none")

----------------------------------------------------------------------------
(* Inputs of the recording analysis *)

MaxTones == 2

\* telephone audio
SAMPLE_RATE == 8000

\* numbers of samples: none, too few for a positive bin, 100 Hz bins (too
\* wide for find_peaks' distance), 50 Hz bins, 25 Hz bins
SampleCounts == {0, 2, 80, 160, 320}

MagLevels == {1, 5, 20}

ToneHz == {1100, 1125, 1150, 1175, 2050, 2100}

Recording(download, decode, n_samples, tones) ==
    [download |-> download, decode |-> decode, sample_rate |-> SAMPLE_RATE,
     n_samples |-> n_samples, tones |-> tones]

\* the bins a tone can sit in: the two ends of the spectrum and ToneHz
ToneBins(n_samples) ==
    LET last == positive_bins(n_samples)
    IN  {i \in 1..last : \/ i \in {1, last}
                         \/ \E h \in ToneHz : i * SAMPLE_RATE = h * n_samples}

Recordings ==
    {Recording(d, "ok", 160, <<>>) : d \in RequestException}
    \cup {Recording("ok", "ValueError", 160, <<>>)}
    \cup UNION {UNION {{Recording("ok", "ok", n, tones) : tones \in [B -> MagLevels]}
                      : B \in {X \in SUBSET ToneBins(n) : Cardinality(X) <= MaxTones}}
                : n \in SampleCounts}

AnalyzePending == [raised |-> "pending", value |-> TonePending]

AnalyzeInit ==
    /\ a_rec \in Recordings
    /\ a_ret = AnalyzePending
    /\ a_future = NoFuture

\* analyze_recording(recording_url), called directly
CallAnalyzeRecording ==
    /\ a_ret = AnalyzePending
    /\ a_future = NoFuture
    /\ a_ret' \in analyze_recording(a_rec)
    /\ UNCHANGED <<a_rec, a_future, notAnalyze>>

\* analyze_recording_async(recording_url, executor): executor.submit
SubmitAnalysis ==
    /\ a_ret = AnalyzePending
    /\ a_future = NoFuture
    /\ a_future' = Future("PENDING", TonePending, "none")
    /\ UNCHANGED <<a_rec, a_ret, notAnalyze>>

\* a worker thread takes the job
WorkerRun ==
    /\ a_future.state = "PENDING"
    /\ a_future' = Future("RUNNING", TonePending, "none")
    /\ UNCHANGED <<a_rec, a_ret, notAnalyze>>

\* the worker's call of analyze_recording ends: the executor stores what it
\* returned as the result, or what it raised as the exception
WorkerFinish ==
    /\ a_future.state = "RUNNING"
    /\ \E out \in analyze_recording(a_rec) :
           a_future' = IF out.raised = "none"
                       THEN Future("FINISHED", out.value, "none")
                       ELSE Future("FINISHED", TonePending, out.raised)
    /\ UNCHANGED <<a_rec, a_ret, notAnalyze>>

AnalyzeNext == CallAnalyzeRecording \/ SubmitAnalysis \/ WorkerRun \/ WorkerFinish

AnalyzeIdle ==
    /\ a_rec = Recording("none", "none", 0, <<>>)
    /\ a_ret = [raised |-> "idle", value |-> TonePending]
    /\ a_future = NoFuture

----------------------------------------------------------------------------
(* audio_analysis.py: the samples of analyze_recording, from wavfile.read to
   the call of perform_fft_analysis.  A sample is a fraction: the numerators
   are kept in a list, over one denominator for the whole signal. *)

\* the number of frames of a recording
MaxFrames == 3

\* sample values of the WAV file (signed integers)
SampleLevels == {-2, -1, 0, 1}

\* what wavfile.read returned: frames of one sample per channel
Wav(channels, frames) ==
    [pc |-> "read", channels |-> channels, frames |-> frames,
     audio |-> <<>>, den |-> 1]

\* mono and stereo recordings of every length up to MaxFrames
Wavs ==
    UNION {{Wav(c, frames) : frames \in [1..n -> [1..c -> SampleLevels]]} :
              c \in {1, 2}, n \in 0..MaxFrames}

NormalizeInit == wav \in Wavs

\* audio.max()
SeqMax(s) == CHOOSE x \in Range(s) : \A y \in Range(s) : y <= x

\* "if len(audio.shape) > 1: audio = audio.mean(axis=1)": the numerators of
\* the signal over the denominator w.channels
downmix(w) == [i \in 1..Len(w.frames) |-> SumSeq(w.frames[i])]

\* "if audio.max() > 0: audio = audio / audio.max()" on numerators over
\* scale: the same numerators, over the largest of them when it is positive
normalize(audio, scale) ==
    IF SeqMax(audio) > 0 THEN [audio |-> audio, den |-> SeqMax(audio)]
    ELSE [audio |-> audio, den |-> scale]

\* analyze_recording from the downmix to the normalized signal; max() of an
\* empty array raises ValueError
NormalizeRecording ==
    /\ wav.pc = "read"
    /\ IF Len(wav.frames) = 0 THEN wav' = [wav EXCEPT !.pc = "ValueError"]
       ELSE LET out == normalize(downmix(wav), wav.channels)
            IN  wav' = [wav EXCEPT !.pc = "normalized", !.audio = out.audio,
                                   !.den = out.den]
    /\ UNCHANGED notNormalize

NormalizeNext == NormalizeRecording

NormalizeIdle == wav = [Wav(1, <<>>) EXCEPT !.pc = "idle"]

----------------------------------------------------------------------------
(* backends/voip.py: the VoIP backend, the thread that drives it and the
   worker threads of its analysis executor.  Waits are counted in tenths of
   a second. *)

MaxCalls == 2

\* tenths of a second in a second
SECOND == 10
\* future.result(timeout=0.1) in _analyze_audio
GRACE == 1
\* _wait_for_pending_analyses(timeout=5.0), as disconnect calls it
WAIT_TIMEOUT == 5 * SECOND
\* _wait_for_pending_analyses(timeout=2.0), from the exit hook and stop_dialing
EXIT_TIMEOUT == 2 * SECOND
STOP_TIMEOUT == 2 * SECOND
\* max_analysis_workers
MAX_ANALYSIS_WORKERS == 4
\* the duration heuristic: int(duration) < 3
SHORT_CALL == 3

NoNumber == [some |-> FALSE, val |-> 0]
NoFft == [some |-> FALSE, val |-> TonePending]

\* a Twilio call as dial() sees it: what calls.create does, the attributes of
\* the call fetched last, and the recording of the call: "none", "error" (the
\* listing fails) or the audio behind its URL
TwilioCall(create, status, answered_by, amd_duration, duration, recording, audio) ==
    [sid |-> 0, create |-> create, status |-> status, answered_by |-> answered_by,
     amd_duration |-> amd_duration, duration |-> duration,
     recording |-> recording, audio |-> audio]

NoAudio == Recording("none", "none", 0, <<>>)

NoCall == TwilioCall("none", "none", "None", "None", 0, "none", NoAudio)

NoRecording == [url |-> NoNumber, duration |-> NoNumber]

\* a record whose answered_by is the tone of the audio analysis when there is one
DialResult_tone_as_hint(success, status, message, carrier_detected, tone_type, answered_by, amd_duration, fft_peak_frequency, fft_confidence, recording) ==
    [success |-> success, status |-> status, message |-> message,
     carrier_detected |-> carrier_detected, tone_type |-> tone_type,
     answered_by |-> IF fft_confidence.some THEN tone_type ELSE answered_by,
     amd_duration |-> amd_duration,
     fft_peak_frequency |-> fft_peak_frequency, fft_confidence |-> fft_confidence,
     recording_url |-> recording.url, recording_duration |-> recording.duration]

DialResult(success, status, message, carrier_detected, tone_type, answered_by, amd_duration, fft_peak_frequency, fft_confidence, recording) ==
    [success |-> success, status |-> status, message |-> message,
     carrier_detected |-> carrier_detected, tone_type |-> tone_type,
     answered_by |-> answered_by, amd_duration |-> amd_duration,
     fft_peak_frequency |-> fft_peak_frequency, fft_confidence |-> fft_confidence,
     recording_url |-> recording.url, recording_duration |-> recording.duration]

\* DialResult(success=False, status="error", message=...)
ErrorDialResult(message) ==
    DialResult(FALSE, "error", message, FALSE, "None", "None", NoNumber,
               NoFreq, NoNumber, NoRecording)

NoDialResult ==
    DialResult(FALSE, "none", "", FALSE, "None", "None", NoNumber,
               NoFreq, NoNumber, NoRecording)

\* float(amd_duration), None when it is None or does not convert
to_amd_duration(raw) == IF raw \in {"None", "bad"} THEN NoNumber ELSE Some(2)

MACHINE == {"machine_start", "machine_end_beep", "machine_end_silence",
            "machine_end_other"}

\* _analyze_call_result(call, phone_number), given what _get_recording and
\* _analyze_audio returned where it calls them; raises TypeError where it
\* formats an amd_duration that is None
analyze_call_result(self, call, recording, fft_result) ==
    LET amd_duration == to_amd_duration(call.amd_duration)
        duration == call.duration
        answered_by == call.answered_by
        Result(success, our_status, message, carrier_detected, tone_type, fft, rec) ==
            Return(DialResult(success, our_status, message, carrier_detected, tone_type,
                              answered_by, amd_duration,
                              IF fft.some THEN fft.val.peak_frequency ELSE NoFreq,
                              IF fft.some THEN Some(fft.val.confidence) ELSE NoNumber,
                              rec))
        analysed == recording.url.some /\ self.enable_audio_analysis
    IN  IF call.status = "completed"
        THEN IF answered_by = "human"
             THEN IF ~amd_duration.some THEN Raise("TypeError")
                  ELSE Result(TRUE, "person", "Human answered", FALSE, "None", NoFft, NoRecording)
             ELSE IF answered_by = "fax"
             THEN IF ~amd_duration.some THEN Raise("TypeError")
                  ELSE IF analysed /\ fft_result.some
                  THEN Result(TRUE, "modem",
                              IF fft_result.val.tone_type # "fax"
                              THEN "carrier detected (AMD said fax, FFT corrected)"
                              ELSE "Fax detected",
                              TRUE, fft_result.val.tone_type, fft_result, recording)
                  ELSE Result(TRUE, "modem", "Fax detected", TRUE, "fax", NoFft, recording)
             ELSE IF answered_by \in MACHINE
             THEN IF ~amd_duration.some THEN Raise("TypeError")
                  ELSE Result(FALSE, "no_answer", "Voicemail/machine detected", FALSE,
                              "None", NoFft, NoRecording)
             ELSE IF answered_by = "unknown"
             THEN IF analysed
                  THEN IF fft_result.some
                       THEN IF fft_result.val.tone_type \in {"modem", "fax"}
                            THEN Result(TRUE, "modem", "detected via FFT (AMD unknown)", TRUE,
                                        fft_result.val.tone_type, fft_result, recording)
                            ELSE IF fft_result.val.tone_type = "voice"
                            THEN Result(TRUE, "person", "Voice detected via FFT (AMD unknown)",
                                        FALSE, "voice", fft_result, recording)
                            ELSE IF ~amd_duration.some THEN Raise("TypeError")
                            ELSE Result(FALSE, "error", "Unknown signal", FALSE,
                                        fft_result.val.tone_type, fft_result, recording)
                       ELSE Result(FALSE, "error", "", FALSE, "None", NoFft, recording)
                  ELSE IF duration # 0 /\ duration < SHORT_CALL
                  THEN Result(TRUE, "modem", "Possible carrier", TRUE, "None", NoFft, recording)
                  ELSE IF ~amd_duration.some THEN Raise("TypeError")
                  ELSE Result(TRUE, "person", "Answered but unknown type", FALSE, "None",
                              NoFft, recording)
             ELSE IF duration # 0 /\ duration < SHORT_CALL
             THEN Result(TRUE, "modem", "Possible modem carrier", TRUE, "None", NoFft,
                         NoRecording)
             ELSE Result(TRUE, "person", "Call answered", FALSE, "None", NoFft, NoRecording)
        ELSE IF call.status = "busy"
        THEN Result(FALSE, "busy", "Busy signal", FALSE, "None", NoFft, NoRecording)
        ELSE IF call.status = "no-answer"
        THEN Result(FALSE, "no_answer", "No answer", FALSE, "None", NoFft, NoRecording)
        ELSE IF call.status \in {"failed", "canceled"}
        THEN Result(FALSE, "error", "Call failed", FALSE, "None", NoFft, NoRecording)
        ELSE Result(FALSE, "error", "", FALSE, "None", NoFft, NoRecording)

\* _get_recording(call_sid): the URL and the duration, and nothing when
\* recording is off, no recording exists or the listing fails
get_recording(self, call) ==
    IF ~self.enable_recording \/ ~self.client THEN NoRecording
    ELSE IF call.recording = "found"
    THEN [url |-> Some(call.sid), duration |-> Some(10)]
    ELSE NoRecording

\* the position of the thread that drives the backend
Main(pc, op, clock, timeout, queue, call, recording) ==
    [pc |-> pc, op |-> op, clock |-> clock, timeout |-> timeout, queue |-> queue,
     call |-> call, recording |-> recording]

Idle == Main("idle", "none", 0, 0, <<>>, NoCall, NoRecording)

Exited == Main("exited", "none", 0, 0, <<>>, NoCall, NoRecording)

\* a work item of the executor: the future and the recording to analyse
Job(future, audio) == [state |-> future.state, result |-> future.result,
                       exception |-> future.exception, audio |-> audio]

NoJob == Job(NoFuture, NoAudio)

\* future.done()
done(future) == future.state = "FINISHED"

\* hangup(): nothing without a current call or a client; otherwise the call
\* is ended and current_call forgotten, whether or not Twilio reports an error
hangup(self) ==
    IF self.current_call = 0 \/ ~self.client THEN self
    ELSE [self EXCEPT !.current_call = 0]

\* _cleanup_recordings()
cleanup_recordings(self) ==
    IF self.pending_recordings = <<>> \/ ~self.client THEN self
    ELSE [self EXCEPT !.pending_recordings = <<>>]

\* what follows _wait_for_pending_analyses in its caller op
finish_wait(W, op) ==
    LET cleaned == IF W.voip.cleanup_recordings THEN cleanup_recordings(W.voip)
                   ELSE W.voip
        returned == [W.hist EXCEPT !.after_wait = TRUE, !.waited = {}]
    IN  IF op = "disconnect"
        THEN IF cleaned.analysis_executor # "none"
             THEN \* analysis_executor.shutdown(wait=True)
                  [W EXCEPT !.voip = [cleaned EXCEPT !.analysis_executor = "shutdown"],
                            !.main = Main("join", op, 0, 0, <<>>, NoCall, NoRecording),
                            !.hist = returned]
             ELSE [W EXCEPT !.voip = [cleaned EXCEPT !.client = FALSE, !.connected = FALSE],
                            !.main = Idle, !.hist = returned]
        ELSE IF op = "exit"
        THEN \* analysis_executor.shutdown(wait=False)
             [W EXCEPT !.voip = [cleaned EXCEPT !.analysis_executor =
                                    IF @ = "none" THEN "none" ELSE "shutdown"],
                       !.main = Exited, !.hist = returned]
        ELSE [W EXCEPT !.main = Idle, !.hist = returned]

\* a handler that lets the exception of future.result through
wait_handler_reraises(exception) == exception

\* except Exception as e: logger.warning(...)
wait_handler(exception) == "caught"

\* _wait_for_pending_analyses(timeout), up to its first wait
begin_wait(W, op, timeout) ==
    LET fresh == [W.hist EXCEPT !.waited = {}, !.after_wait = FALSE]
    IN  IF W.voip.pending_analyses = <<>>
        THEN finish_wait([W EXCEPT !.hist = fresh], op)
        ELSE [W EXCEPT !.main = Main("wait", op, 0, timeout, W.voip.pending_analyses,
                                     NoCall, NoRecording),
                       !.hist = fresh]

\* the wait on the first future of the queue has ended with outcome (the
\* result returned, or an exception raised): on to the next one, and after
\* the last one pending_analyses.clear()
next_wait(W, outcome) ==
    LET sid == Head(W.main.queue)
        counted == [W EXCEPT !.hist.waited = @ \cup {sid}]
    IN  IF outcome # "returned" /\ wait_handler(outcome) # "caught"
        THEN [counted EXCEPT !.main = Idle, !.hist.raised = outcome]
        ELSE IF Len(W.main.queue) > 1
        THEN [counted EXCEPT !.main.queue = Tail(@), !.main.clock = 0]
        ELSE finish_wait([counted EXCEPT !.voip.pending_analyses = <<>>], W.main.op)

\* disconnect(), up to its first wait
disconnect(W) ==
    begin_wait([W EXCEPT !.voip = hangup(W.voip), !.hist.after_wait = FALSE],
               "disconnect", WAIT_TIMEOUT)

\* _cleanup_on_exit()
cleanup_on_exit(W) ==
    IF W.voip.connected
    THEN begin_wait([W EXCEPT !.hist.after_wait = FALSE], "exit", EXIT_TIMEOUT)
    ELSE [W EXCEPT !.main = Exited, !.hist.after_wait = FALSE]

\* the rest of dial() once _analyze_audio has returned fft_result
finish_dial(W, call, recording, fft_result, poll) ==
    LET out == analyze_call_result(W.voip, call, recording, fft_result)
    IN  IF out.raised # "none"
        THEN [W EXCEPT !.dial_result = ErrorDialResult("Unexpected error"),
                       !.main = Idle, !.hist.poll = poll, !.hist.call = call]
        ELSE [W EXCEPT !.dial_result = out.value,
                       !.voip = IF call.status \in {"in-progress", "ringing"}
                                THEN hangup(@) ELSE @,
                       !.main = Idle, !.hist.poll = poll, !.hist.call = call]

\* a submission that polls without keeping the future
submit_without_store(W, call, recording) ==
    [W EXCEPT !.futures[call.sid] = Job(Future("PENDING", TonePending, "none"),
                                        call.audio),
              !.main = Main("poll", "dial", 0, GRACE, <<call.sid>>, call, recording)]

\* _analyze_audio in async mode: the job is submitted, its future is stored
\* under the call's sid, and future.result(timeout=0.1) begins
submit_analysis(W, call, recording) ==
    [W EXCEPT !.futures[call.sid] = Job(Future("PENDING", TonePending, "none"),
                                        call.audio),
              !.voip.pending_analyses = Append(@, call.sid),
              !.main = Main("poll", "dial", 0, GRACE, <<call.sid>>, call, recording)]

\* dial(phone_number), up to the poll of _analyze_audio; sync_result is what
\* analyze_recording returns when it is called on this thread
dial(W0, call, sync_result) ==
    LET W == [W0 EXCEPT !.hist.ncalls = @ + 1, !.hist.after_wait = FALSE,
                        !.hist.poll = "none", !.hist.poll_sid = call.sid,
                        !.hist.call = NoCall]
        self == W.voip
    IN  IF ~(self.connected /\ self.client)
        THEN [W EXCEPT !.dial_result = ErrorDialResult("Not connected to Twilio service")]
        ELSE IF call.create = "TwilioRestException"
        THEN [W EXCEPT !.dial_result = ErrorDialResult("Twilio error")]
        ELSE IF call.create # "ok"
        THEN [W EXCEPT !.dial_result = ErrorDialResult("Unexpected error")]
        ELSE LET W1 == [W EXCEPT !.voip.current_call = call.sid]
                 recording == get_recording(self, call)
                 W2 == [W1 EXCEPT !.voip.pending_recordings =
                                     IF recording.url.some THEN Append(@, call.sid) ELSE @]
             IN  IF call.status # "completed" \/ call.answered_by \notin {"fax", "unknown"}
                 THEN finish_dial(W1, call, NoRecording, NoFft, "none")
                 ELSE IF call.answered_by = "fax" /\ ~to_amd_duration(call.amd_duration).some
                 THEN finish_dial(W1, call, NoRecording, NoFft, "none")
                 ELSE IF ~(recording.url.some /\ self.enable_audio_analysis)
                 THEN finish_dial(W2, call, recording, NoFft, "none")
                 ELSE IF self.async_analysis /\ self.analysis_executor # "none"
                 THEN IF self.analysis_executor = "shutdown"
                      THEN \* submit raises RuntimeError, which _analyze_audio catches
                           finish_dial(W2, call, recording, NoFft, "refused")
                      ELSE submit_analysis(W2, call, recording)
                 ELSE finish_dial(W2, call, recording, Some(sync_result), "sync")

----------------------------------------------------------------------------
(* Inputs and steps of the VoIP backend *)

\* VoIPBackend(...): the object after __init__
VoIPBackend(recording, audio_analysis, async, cleanup, workers) ==
    [connected |-> FALSE, client |-> FALSE, current_call |-> 0,
     enable_recording |-> recording,
     enable_audio_analysis |-> audio_analysis,
     async_analysis |-> async,
     cleanup_recordings |-> cleanup,
     max_analysis_workers |-> workers,
     pending_analyses |-> <<>>, pending_recordings |-> <<>>,
     analysis_executor |-> IF async /\ audio_analysis THEN "running" ELSE "none"]

Backends ==
    {VoIPBackend(TRUE, TRUE, TRUE, TRUE, MAX_ANALYSIS_WORKERS),
     VoIPBackend(TRUE, TRUE, FALSE, FALSE, MAX_ANALYSIS_WORKERS),
     VoIPBackend(TRUE, FALSE, TRUE, TRUE, MAX_ANALYSIS_WORKERS),
     VoIPBackend(FALSE, TRUE, TRUE, TRUE, MAX_ANALYSIS_WORKERS)}

\* the recordings behind the URLs: unreachable, silent, and one tone each at
\* 400, 1100 and 2100 Hz
Unreachable == Recording("Timeout", "ok", 160, <<>>)
Silence == Recording("ok", "ok", 160, <<>>)
Tone400 == Recording("ok", "ok", 160, 8 :> 5)
Tone1100 == Recording("ok", "ok", 160, 22 :> 5)
Tone2100 == Recording("ok", "ok", 160, 42 :> 5)

CallPool ==
    {TwilioCall("TwilioRestException", "none", "None", "None", 0, "none", NoAudio),
     TwilioCall("ok", "busy", "None", "None", 0, "none", NoAudio),
     TwilioCall("ok", "in-progress", "None", "None", 0, "none", NoAudio),
     TwilioCall("ok", "completed", "human", "2", 5, "found", Silence),
     TwilioCall("ok", "completed", "human", "None", 5, "none", NoAudio),
     TwilioCall("ok", "completed", "machine_start", "2", 5, "none", NoAudio),
     TwilioCall("ok", "completed", "fax", "2", 5, "found", Tone1100),
     TwilioCall("ok", "completed", "fax", "2", 5, "found", Tone2100),
     TwilioCall("ok", "completed", "fax", "2", 5, "none", NoAudio),
     TwilioCall("ok", "completed", "fax", "None", 5, "found", Tone1100),
     TwilioCall("ok", "completed", "unknown", "2", 5, "found", Tone400),
     TwilioCall("ok", "completed", "unknown", "None", 2, "found", Unreachable),
     TwilioCall("ok", "completed", "unknown", "2", 2, "error", NoAudio),
     TwilioCall("ok", "completed", "None", "None", 2, "none", NoAudio)}

\* what analyze_recording can return for a recording
AnalysisResults(audio) == {out.value : out \in analyze_recording(audio)}

\* what the claims need of the past: the calls dialed so far; of the last
\* dial(), how its poll ended and the call as it was fetched last; of the
\* last wait, the jobs waited on, whether it has returned and what it raised
History ==
    [ncalls |-> 0, poll |-> "none", poll_sid |-> 0,
     call |-> NoCall,
     waited |-> {},
     after_wait |-> FALSE, raised |-> "none"]

World == [voip |-> voip, futures |-> futures, main |-> main,
          dial_result |-> dial_result, hist |-> hist]

Becomes(W) ==
    /\ voip' = W.voip
    /\ futures' = W.futures
    /\ main' = W.main
    /\ dial_result' = W.dial_result
    /\ hist' = W.hist
    /\ UNCHANGED notSched

SchedInit ==
    /\ voip \in Backends
    /\ futures = [sid \in 1..MaxCalls |-> NoJob]
    /\ main = Idle
    /\ dial_result = NoDialResult
    /\ hist = History

\* connect(): the client is made; the account is verified or not
Connect ==
    /\ main.pc = "idle"
    /\ \E verified \in BOOLEAN :
           Becomes([World EXCEPT !.voip.client = TRUE, !.voip.connected = verified,
                                 !.hist.after_wait = FALSE])

\* dial(phone_number)
Dial ==
    /\ main.pc = "idle"
    /\ hist.ncalls < MaxCalls
    /\ \E call \in CallPool : \E sync_result \in AnalysisResults(call.audio) :
           Becomes(dial(World, [call EXCEPT !.sid = hist.ncalls + 1], sync_result))

\* future.result(timeout=0.1) returns the result
PollReturn ==
    /\ main.pc = "poll"
    /\ done(futures[main.call.sid])
    /\ Becomes(finish_dial(World, main.call, main.recording,
                           Some(futures[main.call.sid].result), "ready"))

\* a tenth of a second passes in future.result(timeout=0.1)
PollTick ==
    /\ main.pc = "poll"
    /\ ~done(futures[main.call.sid])
    /\ main.clock < main.timeout
    /\ Becomes([World EXCEPT !.main.clock = @ + 1])

\* future.result(timeout=0.1) raises TimeoutError: _analyze_audio returns None
PollTimeout ==
    /\ main.pc = "poll"
    /\ ~done(futures[main.call.sid])
    /\ main.clock = main.timeout
    /\ Becomes(finish_dial(World, main.call, main.recording, NoFft, "timeout"))

\* a dialing loop on a thread of its own, whose dial() a handler can meet
between_calls_threaded(thread) == thread.pc \in {"idle", "poll"}

\* run_worker(self.start_dialing()): the dialing coroutine and the handlers
\* of the TUI share the thread of the event loop, and dial() is a blocking
\* call of the coroutine, so a handler runs only between two calls of the
\* backend
between_calls(thread) == thread.pc = "idle"

\* _wait_for_pending_analyses(timeout=2.0) as the TUI's stop_dialing calls
\* it, after hangup()
StopDialing ==
    /\ between_calls(main)
    /\ Becomes(begin_wait([World EXCEPT !.voip = hangup(@), !.hist.after_wait = FALSE],
                          "stop", STOP_TIMEOUT))

\* disconnect()
Disconnect ==
    /\ main.pc = "idle"
    /\ Becomes(disconnect(World))

\* the exit hook
CleanupOnExit ==
    /\ main.pc = "idle"
    /\ Becomes(cleanup_on_exit(World))

\* future.result(timeout) returns in _wait_for_pending_analyses
WaitReturn ==
    /\ main.pc = "wait"
    /\ done(futures[Head(main.queue)])
    /\ Becomes(next_wait(World, "returned"))

\* a second passes in future.result(timeout)
WaitTick ==
    /\ main.pc = "wait"
    /\ ~done(futures[Head(main.queue)])
    /\ main.clock < main.timeout
    /\ Becomes([World EXCEPT !.main.clock = @ + SECOND])

\* future.result(timeout) raises TimeoutError in _wait_for_pending_analyses
WaitTimeout ==
    /\ main.pc = "wait"
    /\ ~done(futures[Head(main.queue)])
    /\ main.clock = main.timeout
    /\ Becomes(next_wait(World, "TimeoutError"))

\* the jobs a worker thread still has to run or is running
unfinished(fs) == {sid \in DOMAIN fs : fs[sid].state \in {"PENDING", "RUNNING", "STUCK"}}

\* analysis_executor.shutdown(wait=True) returns: every worker thread has
\* ended; disconnect() then forgets the client
JoinReturn ==
    /\ main.pc = "join"
    /\ unfinished(futures) = {}
    /\ Becomes([World EXCEPT !.voip.client = FALSE, !.voip.connected = FALSE,
                             !.main = Idle])

\* a free worker thread takes the oldest queued job
WorkerTake(sid) ==
    /\ futures[sid].state = "PENDING"
    /\ \A other \in 1..(sid - 1) : futures[other].state # "PENDING"
    /\ Cardinality({j \in DOMAIN futures : futures[j].state \in {"RUNNING", "STUCK"}})
          < voip.max_analysis_workers
    /\ futures' = [futures EXCEPT ![sid].state = "RUNNING"]
    /\ UNCHANGED <<voip, main, dial_result, hist, notSched>>

\* the job's analyze_recording returns and the worker sets the result
WorkerDone(sid) ==
    /\ futures[sid].state = "RUNNING"
    /\ \E result \in AnalysisResults(futures[sid].audio) :
           futures' = [futures EXCEPT ![sid].state = "FINISHED", ![sid].result = result]
    /\ UNCHANGED <<voip, main, dial_result, hist, notSched>>

\* the worker gets stuck in the job and never comes back
WorkerStuck(sid) ==
    /\ futures[sid].state = "RUNNING"
    /\ futures' = [futures EXCEPT ![sid].state = "STUCK"]
    /\ UNCHANGED <<voip, main, dial_result, hist, notSched>>

MainStep ==
    \/ Connect \/ Dial \/ PollReturn \/ PollTick \/ PollTimeout
    \/ StopDialing \/ Disconnect \/ CleanupOnExit
    \/ WaitReturn \/ WaitTick \/ WaitTimeout \/ JoinReturn

WorkerStep ==
    \E sid \in 1..MaxCalls : WorkerTake(sid) \/ WorkerDone(sid) \/ WorkerStuck(sid)

SchedNext == MainStep \/ WorkerStep

SchedIdle ==
    /\ voip = VoIPBackend(FALSE, FALSE, FALSE, FALSE, 0)
    /\ futures = <<>>
    /\ main = Exited
    /\ dial_result = NoDialResult
    /\ hist = History

----------------------------------------------------------------------------
(* _analyze_call_result called on its own: a behaviour is one call, given
   the backend's settings, the call as Twilio reports it, and what
   _analyze_audio returns when the recording of the call is analysed *)

MergeCall(self, call, fft_result) == [self |-> self, call |-> call, fft_result |-> fft_result]

\* what _analyze_audio can return: None, or the result of analyze_recording
\* for one of the recordings
MergeFfts ==
    {NoFft} \cup {Some(res) : res \in UNION {AnalysisResults(audio) :
                     audio \in {Unreachable, Silence, Tone400, Tone1100, Tone2100}}}

MergeBackends ==
    {[VoIPBackend(rec, ana, FALSE, FALSE, MAX_ANALYSIS_WORKERS)
         EXCEPT !.client = TRUE, !.connected = TRUE] : rec \in BOOLEAN, ana \in BOOLEAN}

MergeCalls ==
    {[TwilioCall("ok", st, by, amd, dur, rec, NoAudio) EXCEPT !.sid = 1] :
        st \in {"completed", "busy", "no-answer", "failed", "canceled", "in-progress"},
        by \in {"None", "human", "fax", "unknown"} \cup MACHINE,
        amd \in {"None", "bad", "2"},
        dur \in {0, 2, 5},
        rec \in {"none", "found", "error"}}

MergeInit ==
    /\ m_call \in {MergeCall(self, call, fft) :
                      self \in MergeBackends, call \in MergeCalls, fft \in MergeFfts}
    /\ m_ret = Raise("pending")

\* _analyze_call_result(call, phone_number)
CallAnalyzeCallResult ==
    /\ m_ret.raised = "pending"
    /\ m_ret' = analyze_call_result(m_call.self, m_call.call,
                                    get_recording(m_call.self, m_call.call),
                                    m_call.fft_result)
    /\ UNCHANGED <<m_call, notMerge>>

MergeNext == CallAnalyzeCallResult

MergeIdle ==
    /\ m_call = MergeCall(VoIPBackend(FALSE, FALSE, FALSE, FALSE, 0), NoCall, NoFft)
    /\ m_ret = Raise("idle")

----------------------------------------------------------------------------
(* Inputs of the resume engine *)

\* "AAA-EEE-SSSS"
Fmt(area, exchange, subscriber) ==
    zfill(area, 3) \o <<DASH>> \o zfill(exchange, 3) \o <<DASH>> \o zfill(subscriber, 4)

Take(s, n) == SubSeq(s, 1, n)

\* every leading part of 555-234-5600 that holds at least the area code
GoodPrefixes == {Take(Fmt(555, 234, 5600), n) : n \in 3..12}

\* prefixes without dashes, with a country code, a leading "+", a stray
\* character, and prefixes the validator rejects
OddPrefixes ==
    { Take(RemoveDashes(Fmt(555, 234, 5600)), 8),            \* 55523456
      RemoveDashes(Fmt(555, 234, 5600)),                     \* 5552345600
      <<CH1>> \o RemoveDashes(Fmt(555, 234, 5600)),          \* 15552345600
      <<PLUS, CH1>> \o RemoveDashes(Fmt(555, 234, 5600)),    \* +15552345600
      <<CH1>> \o RemoveDashes(Fmt(555, 234, 5600)) \o <<CH0>>, \* 12 digits
      <<PLUS>> \o Take(Fmt(555, 234, 5690), 11),             \* +555-234-569
      Take(Fmt(555, 234, 5600), 9) \o <<PLUS, CH0>>,         \* 555-234-5+0
      Take(Fmt(155, 234, 5600), 11),                         \* area code starts with 1
      Take(Fmt(511, 234, 5600), 11),                         \* N11 area code
      Take(Fmt(555, 134, 5600), 11),                         \* exchange starts with 1
      Take(Fmt(555, 234, 5600), 2),                          \* too short
      <<>> }

NeededDigits(p) == TARGET_LENGTH - Len(normalize_number(p))

PrefixPool == {p \in GoodPrefixes \cup OddPrefixes : NeededDigits(p) <= MaxDigitsNeeded}

\* an earlier sequential run over 555-234-560 interrupted after k numbers
EarlierRun(k) == {Fmt(555, 234, 5600 + i) : i \in 0..(k - 1)}

\* other rows a results file can hold: later numbers of the same ranges,
\* a number of another range, a number stored without dashes
ExtraRows ==
    { Fmt(555, 234, 5609), Fmt(555, 234, 5699), Fmt(555, 234, 5700),
      RemoveDashes(Fmt(555, 234, 5601)) }

DialedSets == {EarlierRun(k) \cup X : k \in 0..10, X \in SUBSET ExtraRows}

Source(suffix, exists, has_column, numbers) ==
    [suffix |-> suffix, exists |-> exists, has_column |-> has_column, numbers |-> numbers]

\* results files: readable ones with any of the dialed sets, and missing,
\* unsupported or column-less ones
SourcePool ==
    {Source(".csv", TRUE, TRUE, d) : d \in DialedSets}
        \cup {Source(".db", TRUE, TRUE, EarlierRun(k)) : k \in 0..10}
        \cup {Source(sfx, ex, col, {}) :
                 sfx \in {".csv", ".CSV", ".db", ".txt", ""}, ex \in BOOLEAN, col \in BOOLEAN}
        \cup {Source(sfx, TRUE, FALSE, EarlierRun(3)) : sfx \in {".csv", ".db", ".txt"}}
        \cup {Source(".csv", TRUE, TRUE, {Fmt(555, 234, 5600), Fmt(a, 234, 5600)}) :
                 a \in {565, 655}}

NoSource == Source("", FALSE, FALSE, {})

----------------------------------------------------------------------------
(* The resume engine: its functions are stateless, so a behaviour is one
   call: the initial state holds the arguments, the step computes the result *)

Call(op, prefix, dialed, randomize, source) ==
    [op |-> op, prefix |-> prefix, dialed |-> dialed, randomize |-> randomize,
     source |-> source]

\* a prefix inferred from the file's numbers is within the bound on the
\* digits to fill, as the prefixes of the pool are
InferredInBounds(src, p) ==
    LET rd == read_dialed_numbers(src)
        eff == effective_prefix(rd.value, p)
    IN  (rd.raised = "none" /\ eff.some) => NeededDigits(eff.val) <= MaxDigitsNeeded

ResumeCalls ==
    {Call("calculate_remaining_numbers", Some(p), d, rnd, NoSource) :
        p \in PrefixPool, d \in DialedSets, rnd \in BOOLEAN}
    \cup
    {c \in {Call("prepare_resume", p, {}, rnd, src) :
                p \in {None} \cup {Some(q) : q \in PrefixPool},
                rnd \in BOOLEAN, src \in SourcePool} :
        InferredInBounds(c.source, c.prefix)}

ResumeInit ==
    /\ r_call \in ResumeCalls
    /\ r_ret = ResumeRaise("pending")

\* calculate_remaining_numbers(prefix, dialed, randomize)
CallCalculateRemaining ==
    /\ r_call.op = "calculate_remaining_numbers"
    /\ r_ret.raised = "pending"
    /\ \E res \in calculate_remaining_numbers(r_call.prefix.val, r_call.dialed,
                                              r_call.randomize) :
           r_ret' = [ResumeRaise(res.raised) EXCEPT !.remaining = res.value]
    /\ UNCHANGED <<r_call, notResume>>

\* prepare_resume(resume_file, prefix, randomize)
CallPrepareResume ==
    /\ r_call.op = "prepare_resume"
    /\ r_ret.raised = "pending"
    /\ r_ret' \in prepare_resume(r_call.source, r_call.prefix, r_call.randomize)
    /\ UNCHANGED <<r_call, notResume>>

ResumeNext == CallCalculateRemaining \/ CallPrepareResume

ResumeIdle ==
    /\ r_call = Call("none", None, {}, FALSE, NoSource)
    /\ r_ret = ResumeRaise("idle")

----------------------------------------------------------------------------
(* The range functions called on their own: generate_numbers,
   infer_pattern_from_numbers and read_dialed_numbers.  A behaviour is one
   call, as for the resume engine. *)

\* the largest number of digits generate_numbers is given to fill
MaxFill == 5

\* generate_numbers(partial_number, randomize): the lists it can return, or
\* the exception it raises
generate_numbers_randomize(partial_number, randomize) ==
    LET gen == generate_numbers(partial_number)
    IN  IF gen.raised # "none" \/ ~randomize THEN {gen}
        ELSE {Return(r) : r \in shuffle(gen.value)}

\* prefixes of numbers with an ordinary exchange, with exchanges that start
\* with 1 or are N11 codes, with other area codes, and the odd prefixes
RangePrefixes ==
    {p \in {Take(Fmt(555, 134, 5600), n) : n \in 5..12}
             \cup {Take(Fmt(555, e, 5600), n) : e \in {234, 211, 911}, n \in 7..12}
             \cup {Take(Fmt(a, 234, 5600), n) : a \in {212, 911, 155, 55}, n \in 10..12}
             \cup OddPrefixes :
        NeededDigits(p) <= MaxFill}

\* numbers of results files: neighbours, and numbers that part ways at every
\* position of the number
InferNumbers ==
    { Fmt(555, 234, 5600), Fmt(555, 234, 5601), Fmt(555, 234, 5699), Fmt(555, 234, 5700),
      Fmt(555, 234, 6000), Fmt(555, 235, 0), Fmt(555, 300, 0), Fmt(556, 234, 5600),
      Fmt(565, 234, 5600), Fmt(655, 234, 5600) }

InferSets == {S \in SUBSET InferNumbers : Cardinality(S) <= 3}

RangeCall(op, partial_number, randomize, numbers, source) ==
    [op |-> op, partial_number |-> partial_number, randomize |-> randomize,
     numbers |-> numbers, source |-> source]

RangeCalls ==
    {RangeCall("generate_numbers", p, FALSE, {}, NoSource) : p \in RangePrefixes}
    \cup {RangeCall("generate_numbers", p, TRUE, {}, NoSource) :
             p \in {q \in RangePrefixes : NeededDigits(q) <= 0}}
    \cup {RangeCall("count_numbers", p, FALSE, {}, NoSource) : p \in RangePrefixes}
    \cup {RangeCall("infer_pattern_from_numbers", <<>>, FALSE, S, NoSource) : S \in InferSets}
    \cup {RangeCall("read_dialed_numbers", <<>>, FALSE, {}, src) : src \in SourcePool}

RangeInit ==
    /\ g_call \in RangeCalls
    /\ g_ret = Raise("pending")

\* generate_numbers(partial_number, randomize)
CallGenerateNumbers ==
    /\ g_call.op = "generate_numbers"
    /\ g_ret.raised = "pending"
    /\ g_ret' \in generate_numbers_randomize(g_call.partial_number, g_call.randomize)
    /\ UNCHANGED <<g_call, notRange>>

\* count_numbers(partial_number)
CallCountNumbers ==
    /\ g_call.op = "count_numbers"
    /\ g_ret.raised = "pending"
    /\ g_ret' = count_numbers(g_call.partial_number)
    /\ UNCHANGED <<g_call, notRange>>

\* infer_pattern_from_numbers(numbers)
CallInferPattern ==
    /\ g_call.op = "infer_pattern_from_numbers"
    /\ g_ret.raised = "pending"
    /\ g_ret' = Return(infer_pattern_from_numbers(g_call.numbers))
    /\ UNCHANGED <<g_call, notRange>>

\* read_dialed_numbers(filename)
CallReadDialedNumbers ==
    /\ g_call.op = "read_dialed_numbers"
    /\ g_ret.raised = "pending"
    /\ g_ret' = read_dialed_numbers(g_call.source)
    /\ UNCHANGED <<g_call, notRange>>

RangeNext ==
    CallGenerateNumbers \/ CallCountNumbers \/ CallInferPattern \/ CallReadDialedNumbers

RangeIdle ==
    /\ g_call = RangeCall("none", <<>>, FALSE, {}, NoSource)
    /\ g_ret = Raise("idle")

----------------------------------------------------------------------------
(* cli.py and ui/tui/app.py: one run of the dial command, without the
   --interactive option (the loop of cli.dial) or with it (the dialing
   screen's start_dialing coroutine and its buttons).  dialer.dial is taken
   as one step that hands the number to the dialer; the claims here are about
   which numbers are handed over, and when. *)

NoResume == ResumeRaise("none")

Run(mode, has_resume, resume_file, resume_prefix, pattern, tui_limit) ==
    [mode |-> mode, has_resume |-> has_resume, resume_file |-> resume_file,
     resume_prefix |-> resume_prefix, pattern |-> pattern, tui_limit |-> tui_limit,
     pc |-> "start", resume |-> NoResume, resume_numbers |-> None,
     phone_number |-> <<>>, numbers |-> <<>>, i |-> 0,
     is_dialing |-> FALSE, is_paused |-> FALSE,
     dials |-> <<>>, stopped |-> FALSE, dials_at_stop |-> 0]

\* the results files of an earlier run over 555-234-560 interrupted after k
\* numbers, for every k; the prefix given or left to be inferred; a limit of
\* the menu screen (0 stands for None) and the pattern typed there or given
\* on the command line
RunPool ==
    {Run(mode, TRUE, Source(".csv", TRUE, TRUE, EarlierRun(k)), prefix, pattern, limit) :
        mode \in {"cli", "tui"}, k \in 0..10,
        prefix \in {None, Some(Take(Fmt(555, 234, 5600), 11))},
        pattern \in {<<>>, Take(Fmt(555, 234, 5600), 11)}, limit \in {0, 2}}
    \cup
    {Run(mode, FALSE, NoSource, None, pattern, limit) :
        mode \in {"cli", "tui"},
        pattern \in {<<>>, Take(Fmt(555, 234, 5600), 11)}, limit \in {0, 2}}

RunInit == run \in RunPool

\* a list or None taken as a condition: None and the empty list are false
truthy(opt) == opt.some /\ Len(opt.val) > 0

\* cli.dial, the resume block: prepare_resume, whose errors end the command
CliPrepareResume ==
    /\ run.pc = "start"
    /\ IF ~run.has_resume
       THEN run' = [run EXCEPT !.pc = "launch", !.phone_number = run.pattern]
       ELSE \E res \in prepare_resume(run.resume_file, run.resume_prefix, FALSE) :
               IF res.raised # "none"
               THEN run' = [run EXCEPT !.pc = "exit", !.resume = res]
               ELSE run' = [run EXCEPT !.pc = "launch", !.resume = res,
                                       !.resume_numbers = Some(res.remaining),
                                       !.phone_number = res.prefix]
    /\ UNCHANGED notRun

\* cli.dial, non-interactive: "if resume_numbers: ... else: generate_numbers"
CliNumbers ==
    /\ run.mode = "cli" /\ run.pc = "launch"
    /\ LET gen == generate_numbers(run.phone_number)
       IN  IF truthy(run.resume_numbers)
           THEN run' = [run EXCEPT !.pc = "dialing", !.numbers = run.resume_numbers.val,
                                   !.i = 1]
           ELSE IF run.phone_number = <<>> \/ gen.raised # "none"
           THEN run' = [run EXCEPT !.pc = "exit"]
           ELSE run' = [run EXCEPT !.pc = "dialing", !.numbers = gen.value, !.i = 1]
    /\ UNCHANGED notRun

\* cli.dial: one turn of "for i, number in enumerate(numbers, 1)"
CliDial ==
    /\ run.mode = "cli" /\ run.pc = "dialing"
    /\ run.i <= Len(run.numbers)
    /\ run' = [run EXCEPT !.dials = Append(run.dials, run.numbers[run.i]), !.i = run.i + 1]
    /\ UNCHANGED notRun

\* cli.dial: the list is used up; the summary and the cleanup
CliDone ==
    /\ run.mode = "cli" /\ run.pc = "dialing"
    /\ run.i > Len(run.numbers)
    /\ run' = [run EXCEPT !.pc = "done"]
    /\ UNCHANGED notRun

\* start_dialing, after its loop: both flags go down
finish_dialing(r) == [r EXCEPT !.pc = "done", !.is_dialing = FALSE, !.is_paused = FALSE]

\* start_dialing from the top of a turn of its loop to the next await: the
\* loop ends, or waits in the pause loop, or starts the keypad animation
loop_top(r) ==
    IF r.i > Len(r.numbers) \/ ~r.is_dialing THEN finish_dialing(r)
    ELSE IF r.is_paused THEN [r EXCEPT !.pc = "pause_wait"]
    ELSE [r EXCEPT !.pc = "animate"]

\* numbers[: self.tui_limit] when the limit is set
limited(numbers, tui_limit) ==
    IF tui_limit > 0 /\ tui_limit < Len(numbers) THEN SubSeq(numbers, 1, tui_limit)
    ELSE numbers

\* start_dialing, up to its first await: the screen was made with the
\* pattern of the menu screen and the resume numbers of the app
StartDialing ==
    /\ run.mode = "tui" /\ run.pc = "launch"
    /\ LET gen == generate_numbers(run.pattern)
           started == [run EXCEPT !.is_dialing = TRUE, !.is_paused = FALSE,
                                  !.phone_number = run.pattern, !.i = 1]
       IN  IF run.pattern = <<>> /\ ~truthy(run.resume_numbers)
           THEN run' = [run EXCEPT !.pc = "done", !.phone_number = run.pattern]
           ELSE IF truthy(run.resume_numbers)
           THEN run' = loop_top([started EXCEPT
                            !.numbers = limited(run.resume_numbers.val, run.tui_limit),
                            !.resume_numbers = None])
           ELSE IF gen.raised # "none" THEN run' = [started EXCEPT !.pc = "exit"]
           ELSE run' = loop_top([started EXCEPT
                            !.numbers = limited(gen.value, run.tui_limit)])
    /\ UNCHANGED notRun

\* start_dialing wakes in "while self.is_paused and self.is_dialing"
PauseWake ==
    /\ run.mode = "tui" /\ run.pc = "pause_wait"
    /\ ~(run.is_paused /\ run.is_dialing)
    /\ run' = (IF ~run.is_dialing THEN finish_dialing(run)
               ELSE [run EXCEPT !.pc = "animate"])
    /\ UNCHANGED notRun

\* start_dialing after "await self.animate_keypad_for_number(number)":
\* dialer.dial(number), then the sleep after the dial
AnimateDone ==
    /\ run.mode = "tui" /\ run.pc = "animate"
    /\ run' = [run EXCEPT !.dials = Append(run.dials, run.numbers[run.i]), !.pc = "sleep"]
    /\ UNCHANGED notRun

\* start_dialing after "await asyncio.sleep(0.3)": the next turn of the loop
SleepDone ==
    /\ run.mode = "tui" /\ run.pc = "sleep"
    /\ run' = loop_top([run EXCEPT !.i = run.i + 1])
    /\ UNCHANGED notRun

\* the screen handles a button while start_dialing awaits, or after it
at_await(r) == r.mode = "tui" /\ r.pc \in {"pause_wait", "animate", "sleep", "done"}

\* stop_dialing
PressStop ==
    /\ at_await(run)
    /\ run' = [run EXCEPT !.is_dialing = FALSE, !.is_paused = FALSE, !.stopped = TRUE,
                          !.dials_at_stop = IF run.stopped THEN run.dials_at_stop
                                            ELSE Len(run.dials)]
    /\ UNCHANGED notRun

\* pause_dialing
PressPause ==
    /\ at_await(run)
    /\ run.is_dialing /\ ~run.is_paused
    /\ run' = [run EXCEPT !.is_paused = TRUE]
    /\ UNCHANGED notRun

\* resume_dialing
PressResume ==
    /\ at_await(run)
    /\ run.is_paused
    /\ run' = [run EXCEPT !.is_paused = FALSE]
    /\ UNCHANGED notRun

RunNext ==
    \/ CliPrepareResume \/ CliNumbers \/ CliDial \/ CliDone
    \/ StartDialing \/ PauseWake \/ AnimateDone \/ SleepDone
    \/ PressStop \/ PressPause \/ PressResume

RunIdle == run = [Run("none", FALSE, NoSource, None, <<>>, 0) EXCEPT !.pc = "idle"]

----------------------------------------------------------------------------
(* dialer.py: PhoneDialer.dial and the session counters.  The backend gives a
   connection or refuses it, and gives the result of each call; the storage
   takes what it is handed. *)

\* the number of dial calls of a behaviour
MaxDials == 3

\* what the claims need of a DialResult
BackendResult(success, status, carrier_detected) ==
    [success |-> success, status |-> status, carrier_detected |-> carrier_detected,
     message |-> "backend"]

BackendResults ==
    {BackendResult(success, status, carrier) :
        success \in BOOLEAN, status \in {"modem", "person", "error"}, carrier \in BOOLEAN}

\* DialResult(success=False, status="error", message="Failed to connect to backend")
ConnectFailed ==
    [success |-> FALSE, status |-> "error", carrier_detected |-> FALSE,
     message |-> "Failed to connect to backend"]

NoResult == [success |-> FALSE, status |-> "none", carrier_detected |-> FALSE, message |-> ""]

\* PhoneDialer after __init__: session_metadata with its counters at 0
PhoneDialer ==
    [backend_connected |-> FALSE, session_saved |-> FALSE,
     total_calls |-> 0, successful_calls |-> 0, modem_detections |-> 0,
     saved |-> <<>>, results |-> <<>>, ret |-> NoResult, dials |-> 0]

\* a dial that counts the call before it looks at the connection
PhoneDialer_dial_counting_first(self, connects, result) ==
    LET counted == [self EXCEPT !.session_saved = TRUE, !.dials = self.dials + 1,
                                !.total_calls = self.total_calls + 1]
    IN  IF ~self.backend_connected /\ ~connects
        THEN [counted EXCEPT !.ret = ConnectFailed]
        ELSE [counted EXCEPT
                 !.backend_connected = TRUE,
                 !.successful_calls = IF result.success THEN @ + 1 ELSE @,
                 !.modem_detections =
                     IF result.status = "modem" \/ result.carrier_detected THEN @ + 1 ELSE @,
                 !.saved = Append(@, result),
                 !.results = Append(@, result),
                 !.ret = result]

\* dial(phone_number): connects is what backend.connect() gives when it is
\* asked, result what backend.dial() returns
PhoneDialer_dial(self, connects, result) ==
    LET entered == [self EXCEPT !.session_saved = TRUE, !.dials = self.dials + 1]
    IN  IF ~self.backend_connected /\ ~connects
        THEN [entered EXCEPT !.ret = ConnectFailed]
        ELSE [entered EXCEPT
                 !.backend_connected = TRUE,
                 !.total_calls = @ + 1,
                 !.successful_calls = IF result.success THEN @ + 1 ELSE @,
                 !.modem_detections =
                     IF result.status = "modem" \/ result.carrier_detected THEN @ + 1 ELSE @,
                 !.saved = Append(@, result),
                 !.results = Append(@, result),
                 !.ret = result]

DialerInit == dialer = PhoneDialer

\* dialer.dial(number)
DialerDial ==
    /\ dialer.dials < MaxDials
    /\ \E connects \in BOOLEAN : \E result \in BackendResults :
           dialer' = PhoneDialer_dial(dialer, connects, result)
    /\ UNCHANGED notDialer

\* dialer.connect()
DialerConnect ==
    /\ ~dialer.backend_connected
    /\ \E connects \in BOOLEAN : dialer' = [dialer EXCEPT !.backend_connected = connects]
    /\ UNCHANGED notDialer

\* dialer.disconnect()
DialerDisconnect ==
    /\ dialer.backend_connected
    /\ dialer' = [dialer EXCEPT !.backend_connected = FALSE]
    /\ UNCHANGED notDialer

DialerNext == DialerDial \/ DialerConnect \/ DialerDisconnect

DialerIdle == dialer = [PhoneDialer EXCEPT !.ret.status = "idle"]

----------------------------------------------------------------------------
(* Claims about the runs of the front ends *)

\* C25: once stop_dialing has set is_dialing to false, the running
\* start_dialing loop starts no further dialer.dial call: at whichever await
\* of the loop the stop arrives (pause wait, keypad animation, sleep after the
\* dial), the count of dials performed does not grow afterwards, and the loop
\* ends with both is_dialing and is_paused false.
C25_StopEndsTheDialing ==
    (run.mode = "tui" /\ run.stopped) =>
        /\ Len(run.dials) = run.dials_at_stop
        /\ run.pc = "done" => ~run.is_dialing /\ ~run.is_paused

\* a run started with a resume file has come to its end, without a stop and
\* without a limit from the menu screen
ResumedRunEnded ==
    /\ run.has_resume /\ run.resume.raised = "none"
    /\ run.pc = "done"
    /\ ~run.stopped /\ run.tui_limit = 0

\* C27: in a run started with a resume file (dial command or dialing screen)
\* the numbers dialed are exactly the remaining list prepare_resume returned,
\* for every point at which the earlier run was interrupted: no number of the
\* resume file is dialed again, and when every number of the range was
\* recorded the resumed run dials nothing.
C27_ResumedRunDialsTheRemaining ==
    ResumedRunEnded =>
        /\ run.dials = run.resume.remaining
        /\ \A i \in 1..Len(run.dials) : run.dials[i] \notin run.resume_file.numbers
        /\ run.resume.remaining = <<>> => run.dials = <<>>

----------------------------------------------------------------------------
(* Claims about the dialer's counters *)

\* the step is a dial whose connection failed: the dialer was not connected
\* and is not connected afterwards
FailedDial ==
    /\ dialer'.dials = dialer.dials + 1
    /\ ~dialer'.backend_connected

----------------------------------------------------------------------------
(* Claims about the resume engine *)

FullRangeOf(prefix) == generate_numbers(prefix).value

\* s keeps the order of full: it is full with the elements outside s left out
KeepsOrderOf(s, full) == s = SelectSeq(full, LAMBDA x : x \in Range(s))

Ascending(s) == \A i \in 1..(Len(s) - 1) : StrLess(s[i], s[i + 1])

\* C1: calculate_remaining_numbers(p, d, randomize), when p is a valid prefix,
\* returns a duplicate-free list whose elements are exactly the numbers of
\* generate_numbers(p) that are not in d: disjoint from d, inside the full
\* range, of length len(full) - |full /\ d|; without randomize the list is in
\* generation (ascending) order, with randomize it is the same set in some order.
C1_RemainingIsRangeMinusDialed ==
    (r_call.op = "calculate_remaining_numbers" /\ r_ret.raised = "none") =>
        LET full == FullRangeOf(r_call.prefix.val)
            d == r_call.dialed
            rem == r_ret.remaining
        IN  /\ NoDuplicates(rem)
            /\ Range(rem) = Range(full) \ d
            /\ Range(rem) \cap d = {}
            /\ Range(rem) \subseteq Range(full)
            /\ Len(rem) = Len(full) - Cardinality(Range(full) \cap d)
            /\ ~r_call.randomize => (KeepsOrderOf(rem, full) /\ Ascending(rem))

\* C1 witness: a randomized call on a range of which some numbers were dialed,
\* with a dialed number outside the range, returning the remaining numbers in
\* another order than the generation order
C1_Witness ==
    /\ r_call.op = "calculate_remaining_numbers"
    /\ r_ret.raised = "none"
    /\ r_call.randomize
    /\ Len(r_ret.remaining) >= 2
    /\ ~Ascending(r_ret.remaining)
    /\ r_call.dialed \cap Range(FullRangeOf(r_call.prefix.val)) # {}
    /\ r_call.dialed \ Range(FullRangeOf(r_call.prefix.val)) # {}

\* C2: the third element of prepare_resume's tuple is the number of numbers
\* in the full range of the effective prefix, and
\* len(remaining) + |dialed /\ full_range| equals it, also when the dialed set
\* holds numbers outside the range.
C2_TotalIsRangeSize ==
    (r_call.op = "prepare_resume" /\ r_ret.raised = "none") =>
        LET full == FullRangeOf(r_ret.prefix)
            dialed == read_dialed_numbers(r_call.source).value
        IN  /\ r_ret.total_count = Len(full)
            /\ Len(r_ret.remaining) + Cardinality(dialed \cap Range(full)) = r_ret.total_count

\* C16: prepare_resume never returns normally when the dialed set read from
\* the source is empty, nor when no prefix is given and none can be inferred:
\* each case raises ValueError with a message that names the cause, and no
\* empty remaining list comes back.
C16_NothingToResumeIsAnError ==
    (r_call.op = "prepare_resume" /\ r_ret.raised \notin {"pending", "idle"}) =>
        LET rd == read_dialed_numbers(r_call.source)
            inferred == infer_pattern_from_numbers(rd.value)
        IN  rd.raised = "none" =>
               /\ rd.value = {} =>
                      /\ r_ret.raised = "ValueError"
                      /\ r_ret.message = "No dialed numbers found"
               /\ (rd.value # {} /\ ~r_call.prefix.some /\ ~inferred.some) =>
                      /\ r_ret.raised = "ValueError"
                      /\ r_ret.message = "Could not infer pattern from dialed numbers"
               /\ r_ret.raised = "none" =>
                      /\ rd.value # {}
                      /\ r_call.prefix.some \/ inferred.some

\* a results file whose numbers share one digit only, resumed without a prefix
C16_Witness ==
    /\ r_call.op = "prepare_resume"
    /\ ~r_call.prefix.some
    /\ r_call.source.numbers = {Fmt(555, 234, 5600), Fmt(565, 234, 5600)}
    /\ r_ret.raised = "ValueError"
    /\ r_ret.message = "Could not infer pattern from dialed numbers"
    /\ r_ret.remaining = <<>>

----------------------------------------------------------------------------
(* Claims about the range functions *)

RangeDone == g_ret.raised \notin {"pending", "idle"}

\* generate_numbers(prefix, randomize=False) has been called with a prefix of
\* fewer than 10 digits that validate_pattern accepts
GeneratedFromPrefix ==
    /\ g_call.op = "generate_numbers"
    /\ RangeDone
    /\ ~g_call.randomize
    /\ validate_pattern(g_call.partial_number)
    /\ Len(normalize_number(g_call.partial_number)) < TARGET_LENGTH

\* XXX-XXX-XXXX
IsFormatted(s) ==
    /\ Len(s) = 12
    /\ s[4] = DASH /\ s[8] = DASH
    /\ \A i \in (1..12) \ {4, 8} : IsDigit(s[i])

\* C12: for a prefix of k < 10 digits that is valid under the NANP rules,
\* generate_numbers without randomize returns, and never raises; its list is
\* in ascending order without duplicates; every element is a formatted
\* completion of the prefix that validates; and every zero-padded completion
\* among the 10^(10-k) candidates that validates is in the list, the others
\* being left out.
C12_GeneratesTheValidCompletions ==
    GeneratedFromPrefix =>
        LET clean_number == normalize_number(g_call.partial_number)
            k == Len(clean_number)
            numbers == g_ret.value
            valid == {i \in 0..(Pow10(TARGET_LENGTH - k) - 1) :
                         validate(clean_number \o zfill(i, TARGET_LENGTH - k))}
        IN  /\ g_ret.raised = "none"
            /\ Ascending(numbers)
            /\ \A i \in 1..Len(numbers) :
                  /\ IsFormatted(numbers[i])
                  /\ validate(numbers[i])
                  /\ Take(RemoveDashes(numbers[i]), k) = clean_number
            /\ Len(numbers) = Cardinality(valid)

\* 555-234-56 gives the 100 numbers 555-234-5600 ... 555-234-5699
C12_Witness ==
    /\ GeneratedFromPrefix
    /\ g_call.partial_number = Take(Fmt(555, 234, 5600), 10)
    /\ Len(g_ret.value) = 100
    /\ g_ret.value[1] = Fmt(555, 234, 5600)
    /\ g_ret.value[100] = Fmt(555, 234, 5699)

\* a three-digit code that the numbering plan allows: it starts with 2..9
\* and is no N11 code
AssignableCode(code) == Is2to9(code[1]) /\ ~(code[2] = CH1 /\ code[3] = CH1)

\* C13: no number that generate_numbers returns for a prefix it accepts has
\* an area code or an exchange code that starts with 0 or 1 or that is an
\* N11 code.
C13_NoServiceCodes ==
    (g_call.op = "generate_numbers" /\ RangeDone /\ g_ret.raised = "none") =>
        \A i \in 1..Len(g_ret.value) :
            LET digits == RemoveDashes(g_ret.value[i])
            IN  /\ AssignableCode(Slice(digits, 0, 3))
                /\ AssignableCode(Slice(digits, 3, 6))

\* C14: infer_pattern_from_numbers returns None for the empty set; for a set
\* of formatted 10-digit numbers whose smallest and largest element share a
\* longest common prefix of fewer than 10 digits it returns that prefix
\* without a trailing dash, untrimmed, or None when the prefix has fewer than
\* 2 digits.
C14_InfersTheCommonPrefix ==
    (g_call.op = "infer_pattern_from_numbers" /\ RangeDone) =>
        LET numbers == g_call.numbers
            raw == CommonPrefix(MinStr(numbers), MaxStr(numbers))
            k == Len(RemoveDashes(raw))
        IN  IF numbers = {} THEN g_ret.value = None
            ELSE k < TARGET_LENGTH =>
                    g_ret.value = (IF k < 2 THEN None ELSE Some(StripTrailingDash(raw)))

\* C24: for every pattern for which generate_numbers returns a list,
\* count_numbers(pattern) is the length of that list, for prefixes of every
\* accepted length from 3 digits up to a full number.
C24_CountIsTheLengthOfTheRange ==
    (g_call.op = "count_numbers" /\ RangeDone) =>
        LET gen == generate_numbers(g_call.partial_number)
        IN  gen.raised = "none" =>
               /\ g_ret.raised = "none"
               /\ g_ret.value = Len(gen.value)

\* infer_pattern_from_numbers has returned a pattern for a non-empty set of
\* formatted numbers that validate
PatternInferred ==
    /\ g_call.op = "infer_pattern_from_numbers" /\ RangeDone
    /\ g_call.numbers # {}
    /\ \A n \in g_call.numbers : IsFormatted(n) /\ validate(n)
    /\ g_ret.value.some

\* C29: when infer_pattern_from_numbers returns a pattern p for a non-empty
\* set of valid formatted numbers, p is a character prefix of every number of
\* the set, generate_numbers(p) returns a list, and every number of the set
\* is in that list.  (The list is computed where p leaves at most MaxFill
\* digits to fill; a longer range is known by its pattern being accepted.)
C29_InferredPatternCoversTheNumbers ==
    PatternInferred =>
        LET p == g_ret.value.val
        IN  /\ \A n \in g_call.numbers : Take(n, Len(p)) = p
            /\ validate_pattern(p)
            /\ NeededDigits(p) <= MaxFill =>
                   LET gen == generate_numbers(p)
                   IN  /\ gen.raised = "none"
                       /\ g_call.numbers \subseteq Range(gen.value)

\* C15: read_dialed_numbers raises FileNotFoundError for every source that
\* does not exist, and ValueError only for a source that exists and whose
\* format is not recognized; in neither case does it return a set.
C15_NotFoundIsToldFromBadFormat ==
    (g_call.op = "read_dialed_numbers" /\ RangeDone) =>
        LET src == g_call.source
            recognized == suffix_lower(src.suffix) \in {".csv", ".db"}
        IN  /\ ~src.exists => g_ret.raised = "FileNotFoundError"
            /\ g_ret.raised = "ValueError" => (src.exists /\ ~recognized)
            /\ (src.exists /\ ~recognized) => g_ret.raised = "ValueError"

----------------------------------------------------------------------------
(* Claims about the tone classifier *)

ToneDone == t_ret.tone_type \notin {"pending", "idle"}

\* the classifier ran: there was a peak, and the result names the primary
Classified == ToneDone /\ t_ret.peak_frequency.some

primary == t_ret.peak_frequency.val

Peaks == Range(t_peaks)

\* the primary is the frequency of a peak no other peak is stronger than
PrimaryIsStrongest ==
    \E p \in Peaks : p.freq = primary /\ \A q \in Peaks : q.mag <= p.mag

\* within the tolerance window around center; the code leaves the two ends
\* of the window (exactly 50 Hz away) outside it
InWindow(f, center) == f > center - 50 /\ f < center + 50

C5_ModemRangeIsModemOrFax ==
    (Classified /\ primary >= 1650 /\ primary <= 2400) =>
        t_ret.tone_type \in {"modem", "fax"}

\* the primary lies in one of the four bands that have a center frequency
InToneBand(f) ==
    InWindow(f, 1100) \/ InWindow(f, 2100) \/ InWindow(f, 1200) \/ InWindow(f, 2400)

\* three or more peaks lie in 300-3400 Hz and their frequencies deviate by
\* more than 300 Hz: the list the voice heuristic takes for speech
WidelySpread ==
    LET V == SelectSeq([i \in 1..Len(t_peaks) |-> t_peaks[i].freq],
                       LAMBDA f : f >= 300 /\ f <= 3400)
        n == Len(V)
        sum == SumSeq(V)
        sumsq == SumSeq([i \in 1..n |-> V[i] * V[i]])
    IN  n >= 3 /\ n * sumsq - sum * sum > (300 * n) * (300 * n)

NoBandRule == ~InToneBand(primary) /\ (primary < 1650 \/ primary > 2400)

InVoiceRange(f) == f >= 300 /\ f <= 3400

VoicePeaks == {p \in Peaks : InVoiceRange(p.freq)}

\* the ways to take the (up to) k strongest peaks of S
StrongestOf(S, k) ==
    {T \in SUBSET S :
        /\ Cardinality(T) = (IF Cardinality(S) < k THEN Cardinality(S) ELSE k)
        /\ \A p \in T : \A q \in S \ T : p.mag >= q.mag}

\* the frequencies of the peaks of T deviate by more than 300 Hz
Spread(T) ==
    LET f == ByFrequency(T)
        n == Len(f)
        sum == SumSeq([i \in 1..n |-> f[i].freq])
        sumsq == SumSeq([i \in 1..n |-> f[i].freq * f[i].freq])
    IN  n * sumsq - sum * sum > (300 * n) * (300 * n)

\* C21: when no tone band rule matches: if at least 3 detected peaks lie in
\* 300-3400 Hz and the standard deviation of the frequencies of the (up to 5)
\* strongest of them exceeds 300 Hz, classify_tone returns voice with
\* confidence 0.75; otherwise, if the primary lies in 300-3400 Hz, voice with
\* confidence 0.6; otherwise unknown with confidence 0.0.  (Where peaks of
\* equal magnitude leave open which five are the strongest, either answer
\* is taken.)
C21_VoiceHeuristic ==
    (Classified /\ NoBandRule) =>
        LET tops == StrongestOf(VoicePeaks, 5)
            many == Cardinality(VoicePeaks) >= 3
            spread == t_ret.tone_type = "voice" /\ t_ret.confidence = 7500
            alone == IF InVoiceRange(primary)
                     THEN t_ret.tone_type = "voice" /\ t_ret.confidence = 6000
                     ELSE t_ret.tone_type = "unknown" /\ t_ret.confidence = 0
        IN  IF many /\ \A T \in tops : Spread(T) THEN spread
            ELSE IF ~many \/ \A T \in tops : ~Spread(T) THEN alone
            ELSE spread \/ alone

\* six peaks in 300-3400 Hz that are widely spread as a whole, the five
\* strongest of them close together: voice with confidence 0.6
C21_Witness ==
    /\ Classified /\ NoBandRule
    /\ Cardinality(VoicePeaks) = 6
    /\ Spread(VoicePeaks)
    /\ \A T \in StrongestOf(VoicePeaks, 5) : ~Spread(T)
    /\ t_ret.tone_type = "voice"
    /\ t_ret.confidence = 6000

\* C22: for every spectrum with at least one accepted peak,
\* perform_fft_analysis reports at most 5 peaks in all_peaks, ordered by
\* non-increasing magnitude, taken from the strongest accepted peaks, and
\* peak_frequency is the frequency of the first reported peak.
C22_ReportsTheStrongestFive ==
    (ToneDone /\ Len(t_peaks) >= 1) =>
        LET reported == t_ret.all_peaks
        IN  /\ t_ret.has_all_peaks
            /\ Len(reported) <= 5
            /\ Len(reported) = (IF Len(t_peaks) < 5 THEN Len(t_peaks) ELSE 5)
            /\ \A i \in 1..Len(reported) : \A j \in 1..Len(reported) :
                   i < j => /\ reported[i].mag >= reported[j].mag
                            /\ reported[i] # reported[j]
            /\ Range(reported) \in StrongestOf(Peaks, 5)
            /\ t_ret.peak_frequency.some
            /\ t_ret.peak_frequency.val = reported[1].freq

\* six accepted peaks, strong and weak, in an order that is not the order of
\* their magnitudes: five are reported, a strong one first
C22_Witness ==
    /\ ToneDone
    /\ Len(t_peaks) = 6
    /\ t_peaks[1].mag = 1 /\ t_peaks[6].mag = 2
    /\ Len(t_ret.all_peaks) = 5
    /\ t_ret.all_peaks[1].mag = 2 /\ t_ret.all_peaks[5].mag = 1
    /\ t_ret.peak_frequency.val = t_ret.all_peaks[1].freq

\* C28: the tone_type and confidence perform_fft_analysis returns are a
\* function of the peak list it reports in all_peaks: a spectrum whose
\* accepted peaks are exactly the reported ones, when it reports the same
\* list, receives the same classification, so that no accepted peak outside
\* the reported five takes part in the dual-tone or the voice decision.
C28_ReportedPeaksDecide ==
    Classified =>
        \A r \in analyze_peaks(ByFrequency(Range(t_ret.all_peaks))) :
            r.all_peaks = t_ret.all_peaks =>
                /\ r.tone_type = t_ret.tone_type
                /\ r.confidence = t_ret.confidence

----------------------------------------------------------------------------
(* Claims about the recording analysis *)

\* the direct call has returned or raised
AnalyzeDone == a_ret.raised \notin {"pending", "idle"}

\* the recording could not be fetched or could not be read as audio
IngestFailure == a_rec.download # "ok" \/ a_rec.decode # "ok"

\* the recording was read, but has no spectrum find_peaks can search
AnalysisFailure ==
    /\ ~IngestFailure
    /\ \/ positive_bins(a_rec.n_samples) = 0
       \/ 200 * positive_bins(a_rec.n_samples) < a_rec.sample_rate

\* the spectrum was searched and no peak in it clears the height threshold
NoPeakClears ==
    /\ ~IngestFailure /\ ~AnalysisFailure
    /\ LET x == magnitudes(a_rec)
       IN  \A i \in local_maxima(x) : 10 * x[i] < MaxOf(x)

\* unknown, confidence 0.0, no peak frequency, an error that says something
IsErrorResult(res) ==
    /\ res.tone_type = "unknown"
    /\ res.confidence = 0
    /\ ~res.peak_frequency.some
    /\ res.error.some /\ res.error.val # ""

\* C6: when no peak of the spectrum clears the height threshold, the result
\* is tone_type unknown, confidence 0.0, no peak_frequency and an empty
\* all_peaks list, without an error field; after an ingest failure the result
\* always has an error field, so the two are always told apart.
C6_NoPeakIsNotAnError ==
    AnalyzeDone =>
        /\ NoPeakClears =>
              /\ a_ret.raised = "none"
              /\ a_ret.value.tone_type = "unknown"
              /\ a_ret.value.confidence = 0
              /\ ~a_ret.value.peak_frequency.some
              /\ a_ret.value.has_all_peaks /\ a_ret.value.all_peaks = <<>>
              /\ ~a_ret.value.error.some
        /\ IngestFailure => a_ret.raised = "none" /\ a_ret.value.error.some

\* a recording with a tone in it, at the edge of the spectrum where nothing
\* is a peak
C6_Witness ==
    /\ AnalyzeDone
    /\ NoPeakClears
    /\ DOMAIN a_rec.tones # {}
    /\ a_ret.value.tone_type = "unknown"
    /\ ~a_ret.value.error.some

\* C7: analyze_recording never raises: after a download failure (network
\* error, timeout, HTTP error status) and after a decode or analysis failure
\* it returns tone_type unknown, confidence 0.0, no peak_frequency and an
\* error that says something; so the future of analyze_recording_async, once
\* its job has run, holds a result and never an exception, and a running job
\* can always finish.
C7_AnalyzeNeverRaises ==
    /\ AnalyzeDone =>
          /\ a_ret.raised = "none"
          /\ (IngestFailure \/ AnalysisFailure) => IsErrorResult(a_ret.value)
    /\ a_future.state = "FINISHED" =>
          /\ a_future.exception = "none"
          /\ a_future.result.tone_type \in {"modem", "fax", "voice", "unknown"}
          /\ (IngestFailure \/ AnalysisFailure) => IsErrorResult(a_future.result)
    /\ a_future.state = "RUNNING" => ENABLED WorkerFinish

\* a job whose recording is too short for find_peaks has run
C7_Witness ==
    /\ a_future.state = "FINISHED"
    /\ AnalysisFailure
    /\ a_rec.n_samples = 80
    /\ a_future.exception = "none"
    /\ a_future.result.error = Some("ValueError")

\* the signal of a recording has been normalized
Normalized == wav.pc = "normalized"

\* C26: after the normalization of analyze_recording every sample lies in
\* [-1, 1]: the downmixed signal is divided by its largest absolute sample
\* value, and is left as it was only when that value is 0.
C26_NormalizedIntoUnitRange ==
    Normalized =>
        LET mixed == downmix(wav)
            maxabs == SeqMax([i \in 1..Len(mixed) |-> Abs(mixed[i])])
        IN  \A i \in 1..Len(wav.audio) :
               /\ Abs(wav.audio[i]) <= wav.den
               /\ IF maxabs = 0
                  THEN wav.audio[i] * wav.channels = mixed[i] * wav.den
                  ELSE wav.audio[i] * maxabs = mixed[i] * wav.den

----------------------------------------------------------------------------
(* Claims about the VoIP backend *)

pending_analyses == Range(voip.pending_analyses)

\* the thread is inside _wait_for_pending_analyses, waiting on a future
Waiting == main.pc = "wait"

\* C8: _wait_for_pending_analyses(timeout) waits on each job that is pending
\* when it is called at most once and for at most timeout; it never raises,
\* whether a job succeeds, fails or times out; when it returns the pending
\* map is empty; a call made right after it has returned waits on nothing;
\* and it comes to its end in finitely many steps even if no job ever
\* completes: while it waits, a step of its own is always possible, and each
\* of its steps moves on to the next job or lets time pass towards the
\* timeout.
C8_WaitIsBoundedAndClears ==
    /\ [](Waiting =>
            /\ main.clock <= main.timeout
            /\ main.timeout \in {WAIT_TIMEOUT, EXIT_TIMEOUT, STOP_TIMEOUT}
            /\ NoDuplicates(main.queue)
            /\ Range(main.queue) \cap hist.waited = {}
            /\ Range(main.queue) \cup hist.waited = pending_analyses
            /\ ENABLED (WaitReturn \/ WaitTick \/ WaitTimeout))
    /\ [](hist.raised = "none")
    /\ [](hist.after_wait => voip.pending_analyses = <<>>)
    /\ [][(Waiting /\ main'.pc = "wait" /\ main' # main) =>
             \/ Len(main'.queue) < Len(main.queue)
             \/ main'.queue = main.queue /\ main'.clock > main.clock]_vars
    /\ [][(hist.after_wait \/ voip.pending_analyses = <<>>) => main'.pc # "wait"]_vars

\* a wait over two jobs that never completed has returned
C8_Witness ==
    /\ hist.after_wait
    /\ main.pc = "idle"
    /\ voip.pending_analyses = <<>>
    /\ futures[1].state = "STUCK"
    /\ futures[2].state = "RUNNING"

\* C9: disconnect() terminates for every state of the submitted jobs, a job
\* that is stuck included: no step of it waits without bound for a worker,
\* so while disconnect() is under way the program can always take a step.
C9_DisconnectNeverBlocks ==
    (main.op = "disconnect" /\ main.pc \in {"wait", "join"}) => ENABLED SchedNext

\* C11: no read, iteration or clear of pending_analyses interleaves with an
\* insertion into it.  A step of a worker thread leaves the map as it is; an
\* entry is inserted only by dial(), begun between two calls of the backend;
\* a wait begins only between two calls, never while dial() polls; and while
\* a wait goes over its snapshot the map stays equal to the snapshot, until
\* the wait clears it.
C11_MapIsNeverMutatedDuringIteration ==
    /\ [](main.pc = "wait" => main.queue # <<>> /\ Range(main.queue) \subseteq pending_analyses)
    /\ [][(main' = main) => (voip'.pending_analyses = voip.pending_analyses)]_vars
    /\ [][~(Range(voip'.pending_analyses) \subseteq pending_analyses) =>
             (main.pc = "idle" /\ main'.pc = "poll")]_vars
    /\ [][(main'.pc = "wait" /\ main.pc # "wait") => main.pc = "idle"]_vars
    /\ [][main.pc = "wait" =>
             \/ voip'.pending_analyses = voip.pending_analyses
             \/ main'.pc # "wait" /\ voip'.pending_analyses = <<>>]_vars

\* a wait is half way through its snapshot of two jobs while a worker runs
\* the second
C11_Witness ==
    /\ main.pc = "wait"
    /\ main.op = "stop"
    /\ Len(voip.pending_analyses) = 2
    /\ hist.waited = {1}
    /\ main.queue = <<2>>
    /\ futures[2].state = "RUNNING"

\* the last dial() polled its job until the grace period was over
PollTimedOut == hist.poll = "timeout" /\ main.pc = "idle"

\* C10: in async mode _analyze_audio stores the future of the submitted job
\* in pending_analyses under the call's sid before it polls, and polls for at
\* most the grace period; if the job has not finished by then, dial() returns
\* a DialResult without a tone from the FFT, a peak frequency or a confidence
\* while the job is still in pending_analyses; and an entry leaves
\* pending_analyses only when _wait_for_pending_analyses clears the map.
C10_PendingJobStaysPending ==
    /\ [](main.pc = "poll" =>
            /\ main.call.sid \in pending_analyses
            /\ futures[main.call.sid].state # "none"
            /\ main.timeout = GRACE /\ main.clock <= GRACE)
    /\ [](PollTimedOut =>
            /\ dial_result.status # "none"
            /\ ~dial_result.fft_peak_frequency.some
            /\ ~dial_result.fft_confidence.some
            /\ dial_result.tone_type =
                  (IF dial_result.answered_by = "fax" THEN "fax" ELSE "None"))
    /\ [][(main.pc = "poll" /\ main'.pc = "idle" /\ hist'.poll = "timeout") =>
             /\ main.call.sid \in Range(voip'.pending_analyses)
             /\ futures'[main.call.sid].state \in {"PENDING", "RUNNING", "STUCK"}]_vars
    /\ [][~(pending_analyses \subseteq Range(voip'.pending_analyses)) =>
             (Waiting /\ voip'.pending_analyses = <<>>)]_vars

\* dial() has returned for a call that AMD could not tell, while its job runs
C10_Witness ==
    /\ PollTimedOut
    /\ dial_result.answered_by = "unknown"
    /\ dial_result.recording_url.some
    /\ hist.poll_sid \in pending_analyses
    /\ futures[hist.poll_sid].state = "RUNNING"
    /\ ~dial_result.fft_confidence.some

----------------------------------------------------------------------------
(* Claims about _analyze_call_result *)

\* _analyze_call_result has returned a DialResult
MergeReturned == m_ret.raised = "none"

\* the call was answered and _analyze_audio gave a result for its recording,
\* which _analyze_call_result asks for when AMD says by
FftMerged(by) ==
    /\ MergeReturned
    /\ m_call.call.status = "completed"
    /\ m_call.call.answered_by = by
    /\ get_recording(m_call.self, m_call.call).url.some
    /\ m_call.self.enable_audio_analysis
    /\ m_call.fft_result.some

\* C17: with answered_by = fax and an FFT result available the DialResult
\* keeps answered_by as the backend supplied it and takes tone_type,
\* fft_peak_frequency and fft_confidence from the FFT result; and in every
\* branch of _analyze_call_result the answered_by of the result is the
\* call's hint.
C17_HintIsKept ==
    /\ MergeReturned => m_ret.value.answered_by = m_call.call.answered_by
    /\ FftMerged("fax") =>
          /\ m_ret.value.answered_by = "fax"
          /\ m_ret.value.tone_type = m_call.fft_result.val.tone_type
          /\ m_ret.value.fft_peak_frequency = m_call.fft_result.val.peak_frequency
          /\ m_ret.value.fft_confidence = Some(m_call.fft_result.val.confidence)

\* AMD said fax, the FFT found the 2100 Hz of a modem
C17_Witness ==
    /\ FftMerged("fax")
    /\ m_ret.value.answered_by = "fax"
    /\ m_ret.value.tone_type = "modem"
    /\ m_ret.value.fft_peak_frequency = Some(FAX_CED_FREQUENCY)
    /\ m_ret.value.fft_confidence = Some(CONF_CED_MODEM)

\* C19: whenever an FFT result is merged into the DialResult of a completed
\* call (AMD fax or AMD unknown), carrier_detected is true if and only if the
\* final tone_type is modem or fax, and the hint stays as it was.
C19_CarrierFollowsTone ==
    (FftMerged("fax") \/ FftMerged("unknown")) =>
        /\ m_ret.value.carrier_detected <=> m_ret.value.tone_type \in {"modem", "fax"}
        /\ m_ret.value.answered_by = m_call.call.answered_by

\* _analyze_call_result has returned or raised for a completed call whose
\* AMD hint is unknown, and had no FFT result to merge: no recording was
\* found, audio analysis is off, or _analyze_audio gave None
NoFftAtMerge ==
    /\ m_ret.raised # "pending"
    /\ m_call.call.status = "completed"
    /\ m_call.call.answered_by = "unknown"
    /\ \/ ~get_recording(m_call.self, m_call.call).url.some
       \/ ~m_call.self.enable_audio_analysis
       \/ ~m_call.fft_result.some

\* C23: for a completed call whose AMD hint is unknown, when no FFT result
\* is available at merge time (no recording found, audio analysis disabled,
\* or the asynchronous job not finished within the grace period), the outcome
\* falls back to the duration heuristic: status modem with carrier_detected
\* when the call lasted under 3 seconds, otherwise status person, with
\* success true in both cases.
C23_FallsBackToDuration ==
    NoFftAtMerge =>
        /\ m_ret.raised = "none"
        /\ m_ret.value.success
        /\ IF m_call.call.duration < 3
           THEN m_ret.value.status = "modem" /\ m_ret.value.carrier_detected
           ELSE m_ret.value.status = "person"

\* dial() has returned after fetching the call it placed
DialReturned == main.pc = "idle" /\ hist.call.create = "ok"

\* C18: for every completed call dial() returns success = true and status =
\* person when answered_by is human, and success = false and status =
\* no_answer when answered_by is one of the machine values, whatever the
\* call's duration, AMD duration (present or absent) and recording are; and
\* answered_by is copied to the result.
C18_AmdVerdictDecides ==
    (DialReturned /\ hist.call.status = "completed") =>
        /\ hist.call.answered_by = "human" =>
               /\ dial_result.success
               /\ dial_result.status = "person"
               /\ dial_result.answered_by = "human"
        /\ hist.call.answered_by \in MACHINE =>
               /\ ~dial_result.success
               /\ dial_result.status = "no_answer"
               /\ dial_result.answered_by = hist.call.answered_by

----------------------------------------------------------------------------
(* Specifications: one per part of the program, the other parts at rest *)

OthersIdle(parts) ==
    /\ "resume" \in parts \/ ResumeIdle
    /\ "range" \in parts \/ RangeIdle
    /\ "tone" \in parts \/ ToneIdle
    /\ "analyze" \in parts \/ AnalyzeIdle
    /\ "sched" \in parts \/ SchedIdle
    /\ "merge" \in parts \/ MergeIdle
    /\ "run" \in parts \/ RunIdle
    /\ "dialer" \in parts \/ DialerIdle
    /\ "normalize" \in parts \/ NormalizeIdle

InitResume == ResumeInit /\ OthersIdle({"resume"})

SpecResume == InitResume /\ [][ResumeNext]_vars

InitRange == RangeInit /\ OthersIdle({"range"})

SpecRange == InitRange /\ [][RangeNext]_vars

InitTone == ToneInit /\ OthersIdle({"tone"})

SpecTone == InitTone /\ [][ToneNext]_vars

InitPeaks == PeaksInit /\ OthersIdle({"tone"})

SpecPeaks == InitPeaks /\ [][ToneNext]_vars

InitAnalyze == AnalyzeInit /\ OthersIdle({"analyze"})

SpecAnalyze == InitAnalyze /\ [][AnalyzeNext]_vars

InitSched == SchedInit /\ OthersIdle({"sched"})

SpecSched == InitSched /\ [][SchedNext]_vars

InitMerge == MergeInit /\ OthersIdle({"merge"})

SpecMerge == InitMerge /\ [][MergeNext]_vars

InitRun == RunInit /\ OthersIdle({"run"})

SpecRun == InitRun /\ [][RunNext]_vars

InitDialer == DialerInit /\ OthersIdle({"dialer"})

SpecDialer == InitDialer /\ [][DialerNext]_vars

InitNormalize == NormalizeInit /\ OthersIdle({"normalize"})

SpecNormalize == InitNormalize /\ [][NormalizeNext]_vars

====
